---- MODULE Spec2Model ----
(***************************************************************************)
(* A model of cai's provider adaptation layer (src/src/lib.rs): alias      *)
(* resolution, request building, credential fallback, payload shaping,     *)
(* dispatch and response handling, for a single prompt and for the         *)
(* broadcast ("all") mode of src/src/main.rs.                              *)
(*                                                                         *)
(* Strings are TLA+ strings; Len, SubSeq and \o act on them as on          *)
(* sequences of characters.  JSON values (serde_json::Value) are tagged    *)
(* records [t, v]; a JSON object is a function from its keys to values.    *)
(***************************************************************************)
EXTENDS Integers, Sequences, FiniteSets, TLC

(* Rust's Option and Result, and &str predicates                           *)

None == [tag |-> "None"]

Some(x) == [tag |-> "Some", value |-> x]

Ok(x) == [tag |-> "Ok", value |-> x]

Err(e) == [tag |-> "Err", error |-> e]

is_some(o) == o.tag = "Some"

is_ok(r) == r.tag = "Ok"

is_err(r) == r.tag = "Err"

\* Result::or: the first Ok wins, otherwise the alternative's result.
or(r, alt) == IF is_ok(r) THEN r ELSE alt

is_empty(s) == Len(s) = 0

starts_with(s, prefix) ==
  /\ Len(s) >= Len(prefix)
  /\ SubSeq(s, 1, Len(prefix)) = prefix

contains(s, pat) ==
  \E i \in 1..(Len(s) - Len(pat) + 1) : SubSeq(s, i, i + Len(pat) - 1) = pat

RECURSIVE trim_end_matches(_, _)
trim_end_matches(s, ch) ==
  IF Len(s) > 0 /\ SubSeq(s, Len(s), Len(s)) = ch
    THEN trim_end_matches(SubSeq(s, 1, Len(s) - 1), ch)
    ELSE s

(* serde_json::Value                                                       *)

Null == [t |-> "null"]

Bool(b) == [t |-> "bool", v |-> b]

Num(n) == [t |-> "number", v |-> n]

Str(s) == [t |-> "string", v |-> s]

Arr(seq) == [t |-> "array", v |-> seq]

Obj(map) == [t |-> "object", v |-> map]

\* serde_json::Map::new()
Map_new == [k \in {} |-> Null]

\* Map::insert: the key is added, or its value replaced.
insert(map, key, value) ==
  [k \in (DOMAIN map) \cup {key} |-> IF k = key THEN value ELSE map[k]]

contains_key(json, key) == json.t = "object" /\ key \in DOMAIN json.v

\* Value indexing json[key]: Null when json is no object or lacks the key.
index_key(json, key) ==
  IF contains_key(json, key) THEN json.v[key] ELSE Null

\* Value indexing json[i] with a 0-based i: Null when out of range.
index_at(json, i) ==
  IF json.t = "array" /\ i + 1 \in DOMAIN json.v THEN json.v[i + 1] ELSE Null

as_array(json) == IF json.t = "array" THEN Some(json.v) ELSE None

as_str(json) == IF json.t = "string" THEN Some(json.v) ELSE None

as_object(json) == IF json.t = "object" THEN Some(json.v) ELSE None


(* Provider (lib.rs) and its Display                                       *)

Provider ==
  {"Anthropic", "Cerebras", "DeepSeek", "Google", "Groq", "OpenAI",
   "Llamafile", "Ollama", "XAI", "Perplexity"}

Provider_fmt(provider) == IF provider = "XAI" THEN "xAI" ELSE provider

\* Model::Model(provider, model_id)
Model(provider, model_id) == [provider |-> provider, model_id |-> model_id]

\* impl Default for Model
Model_default == Model("Groq", "openai/gpt-oss-20b")

\* impl Display for Model
Model_fmt(model) ==
  IF is_empty(model.model_id)
    THEN Provider_fmt(model.provider)
    ELSE Provider_fmt(model.provider) \o " " \o model.model_id

(* The alias tables of build.rs, in table order                            *)

\* build.rs ANTHROPIC_MODEL_MAPPING_SRC, spliced into ANTHROPIC_MODEL_MAPPING by build.rs main.
ANTHROPIC_MODEL_MAPPING ==
  <<
    <<"claude-opus", "claude-opus-4-0">>,
    <<"opus", "claude-opus-4-0">>,
    <<"op", "claude-opus-4-0">>,
    <<"o", "claude-opus-4-0">>,
    <<"claude-sonnet", "claude-sonnet-4-0">>,
    <<"sonnet", "claude-sonnet-4-0">>,
    <<"so", "claude-sonnet-4-0">>,
    <<"s", "claude-sonnet-4-0">>,
    <<"claude-haiku", "claude-3-5-haiku-latest">>,
    <<"haiku", "claude-3-5-haiku-latest">>,
    <<"ha", "claude-3-5-haiku-latest">>,
    <<"h", "claude-3-5-haiku-latest">>,
    <<"claude-opus-4-1", "claude-opus-4-1">>,
    <<"opus-4-1", "claude-opus-4-1">>,
    <<"claude-opus-4-0", "claude-opus-4-0">>,
    <<"opus-4-0", "claude-opus-4-0">>,
    <<"claude-sonnet-4-0", "claude-sonnet-4-0">>,
    <<"sonnet-4-0", "claude-sonnet-4-0">>,
    <<"claude-opus-3-7", "claude-3-opus-latest">>,
    <<"opus-3-7", "claude-3-opus-latest">>,
    <<"claude-sonnet-3-7", "claude-3-7-sonnet-latest">>,
    <<"sonnet-3-7", "claude-3-7-sonnet-latest">>,
    <<"claude-sonnet-3-5", "claude-3-5-sonnet-latest">>,
    <<"sonnet-3-5", "claude-3-5-sonnet-latest">>,
    <<"claude-haiku-3-5", "claude-3-5-haiku-latest">>,
    <<"haiku-3-5", "claude-3-5-haiku-latest">>,
    <<"claude-opus-3", "claude-3-opus-latest">>,
    <<"opus-3", "claude-3-opus-latest">>,
    <<"claude-sonnet-3", "claude-3-sonnet-20240229">>,
    <<"sonnet-3", "claude-3-sonnet-20240229">>,
    <<"claude-haiku-3", "claude-3-haiku-20240307">>,
    <<"haiku-3", "claude-3-haiku-20240307">>,
    <<"claude-sonnet-3-7", "claude-3-7-sonnet-latest">>,
    <<"sonnet-3-7", "claude-3-7-sonnet-latest">>
  >>

\* build.rs CEREBRAS_MODEL_MAPPING_SRC, spliced into CEREBRAS_MODEL_MAPPING by build.rs main.
CEREBRAS_MODEL_MAPPING ==
  <<
    <<"gpt", "gpt-oss-120b">>,
    <<"llama", "llama3.1-8b">>,
    <<"ll", "llama3.1-8b">>,
    <<"l", "llama3.1-8b">>,
    <<"llama-8b", "llama3.1-8b">>,
    <<"llama-70b", "llama-3.3-70b">>,
    <<"deepseek", "deepseek-r1-distill-llama-70b">>,
    <<"deep", "deepseek-r1-distill-llama-70b">>,
    <<"d", "deepseek-r1-distill-llama-70b">>,
    <<"llama31", "llama-3.1-8b">>,
    <<"llama31-8b", "llama-3.1-8b">>,
    <<"llama33", "llama-3.3-70b">>,
    <<"llama33-70b", "llama-3.3-70b">>,
    <<"deepseek-r1", "deepseek-r1-distill-llama-70b">>
  >>

\* build.rs DEEPSEEK_MODEL_MAPPING_SRC, spliced into DEEPSEEK_MODEL_MAPPING by build.rs main.
DEEPSEEK_MODEL_MAPPING ==
  <<
    <<"chat", "deepseek-chat">>,
    <<"reasoner", "deepseek-reasoner">>
  >>

\* build.rs GOOGLE_MODEL_MAPPING_SRC, spliced into GOOGLE_MODEL_MAPPING by build.rs main.
GOOGLE_MODEL_MAPPING ==
  <<
    <<"gemini", "gemini-2.5-flash">>,
    <<"g", "gemini-2.5-flash">>,
    <<"flash", "gemini-2.5-flash">>,
    <<"f", "gemini-2.5-flash">>,
    <<"gemini-pro", "gemini-2.5-pro">>,
    <<"pro", "gemini-2.5-pro">>,
    <<"gemini-flash-lite", "gemini-2.0-flash-lite">>,
    <<"flast-lite", "gemini-2.0-flash-lite">>,
    <<"lite", "gemini-2.0-flash-lite">>,
    <<"gemini-2.5-flash", "gemini-2.5-flash">>,
    <<"gemini-2.5-pro", "gemini-2.5-pro">>,
    <<"gemini-2-flash", "gemini-2.0-flash">>,
    <<"gemini-1.5-flash", "gemini-1.5-flash">>,
    <<"gemini-1.5-pro", "gemini-1.5-pro">>
  >>

\* build.rs GROQ_MODEL_MAPPING_SRC, spliced into GROQ_MODEL_MAPPING by build.rs main.
GROQ_MODEL_MAPPING ==
  <<
    <<"gpt", "openai/gpt-oss-20b">>,
    <<"gp", "openai/gpt-oss-20b">>,
    <<"llama", "llama-3.1-8b-instant">>,
    <<"ll", "llama-3.1-8b-instant">>,
    <<"llama-instant", "llama-3.1-8b-instant">>,
    <<"llama-versatile", "llama-3.1-70b-versatile">>,
    <<"llama-reasoning", "llama-3.1-405b-reasoning">>,
    <<"gpt-20b", "openai/gpt-oss-20b">>,
    <<"gpt-120b", "openai/gpt-oss-120b">>,
    <<"llama31", "llama-3.1-8b-instant">>,
    <<"llama31-8b", "llama-3.1-8b-instant">>,
    <<"llama31-70b", "llama-3.1-70b-versatile">>,
    <<"llama31-405b", "llama-3.1-405b-reasoning">>,
    <<"llama3", "llama3-8b-8192">>,
    <<"llama3-8b", "llama3-8b-8192">>,
    <<"llama3-70b", "llama3-70b-8192">>,
    <<"whisper", "whisper-large-v3">>,
    <<"whisper-turbo", "whisper-large-v3-turbo">>,
    <<"qwen", "qwen3-32b">>,
    <<"deepseek", "deepseek-r1-distill-llama-70b">>
  >>

\* build.rs OLLAMA_MODEL_MAPPING_SRC, spliced into OLLAMA_MODEL_MAPPING by build.rs main.
OLLAMA_MODEL_MAPPING ==
  <<
    <<"llama", "llama3.1">>,
    <<"ll", "llama3.1">>,
    <<"l", "llama3.1">>,
    <<"mixtral", "mixtral">>,
    <<"mix", "mixtral">>,
    <<"m", "mixtral">>,
    <<"mistral", "mistral">>,
    <<"mis", "mistral">>,
    <<"gemma", "gemma">>,
    <<"ge", "gemma">>,
    <<"g", "gemma">>,
    <<"codegemma", "codegemma">>,
    <<"cg", "codegemma">>,
    <<"c", "codegemma">>,
    <<"command-r", "command-r">>,
    <<"cr", "command-r">>,
    <<"command-r-plus", "command-r-plus">>,
    <<"crp", "command-r-plus">>,
    <<"llama3", "llama3.1">>,
    <<"llama3.0", "llama3">>,
    <<"llama2", "llama2">>
  >>

\* build.rs OPENAI_MODEL_MAPPING_SRC, spliced into OPENAI_MODEL_MAPPING by build.rs main.
OPENAI_MODEL_MAPPING ==
  <<
    <<"gpt", "gpt-5">>,
    <<"mini", "gpt-5-mini">>,
    <<"m", "gpt-5-mini">>,
    <<"nano", "gpt-5-nano">>,
    <<"n", "gpt-5-nano">>,
    <<"image", "gpt-5">>,
    <<"tts", "gpt-4o-mini-tts">>,
    <<"transcribe", "gpt-4o-transcribe">>,
    <<"gpt5", "gpt-5">>,
    <<"gpt5mini", "gpt-5-mini">>,
    <<"gpt5nano", "gpt-5-nano">>,
    <<"5", "gpt-5">>,
    <<"5mini", "gpt-5-mini">>,
    <<"5m", "gpt-5-mini">>,
    <<"5nano", "gpt-5-nano">>,
    <<"5n", "gpt-5-nano">>,
    <<"gptimage", "gpt-image-1">>,
    <<"gpt-image", "gpt-image-1">>,
    <<"gpt-image-1", "gpt-image-1">>,
    <<"dalle", "dall-e-3">>,
    <<"dalle3", "dall-e-3">>,
    <<"dalle2", "dall-e-2">>,
    <<"gpt4", "gpt-4.1">>,
    <<"gpt4mini", "gpt-4.1-mini">>,
    <<"4mini", "gpt-4.1-mini">>,
    <<"4m", "gpt-4.1-mini">>,
    <<"gpt4nano", "gpt-4.1-nano">>,
    <<"4nano", "gpt-4.1-nano">>,
    <<"4n", "gpt-4.1-nano">>,
    <<"gpt4o", "gpt-4o">>,
    <<"4o", "gpt-4o">>,
    <<"gpt4ominitts", "gpt-4o-mini-tts">>,
    <<"gpt4otranscribe", "gpt-4o-transcribe">>,
    <<"o4m", "o4-mini">>,
    <<"o4mdr", "o4-mini-deep-research">>,
    <<"o3pro", "o3-pro">>,
    <<"o3dr", "o3-deep-research">>
  >>

\* build.rs XAI_MODEL_MAPPING_SRC, spliced into XAI_MODEL_MAPPING by build.rs main.
XAI_MODEL_MAPPING ==
  <<
    <<"grok", "grok-4-latest">>,
    <<"grok-mini", "grok-3-mini-latest">>,
    <<"grok-image", "grok-2-image-latest">>,
    <<"grok4", "grok-4-latest">>,
    <<"grok3", "grok-3-latest">>,
    <<"grok3mini", "grok-3-mini-latest">>
  >>

\* build.rs PERPLEXITY_MODEL_MAPPING_SRC, spliced into PERPLEXITY_MODEL_MAPPING by build.rs main.
PERPLEXITY_MODEL_MAPPING ==
  <<
    <<"sonar", "sonar">>,
    <<"s", "sonar">>,
    <<"sonar-pro", "sonar-pro">>,
    <<"sp", "sonar-pro">>,
    <<"sonar-reasoning", "sonar-reasoning">>,
    <<"sr", "sonar-reasoning">>,
    <<"sonar-reasoning-pro", "sonar-reasoning-pro">>,
    <<"srp", "sonar-reasoning-pro">>,
    <<"sonar-deep-research", "sonar-deep-research">>,
    <<"sdr", "sonar-deep-research">>,
    <<"r1-1776", "r1-1776">>,
    <<"r", "r1-1776">>,
    <<"offline", "r1-1776">>,
    <<"llama-small", "llama-3.1-sonar-small-128k-online">>,
    <<"ls", "llama-3.1-sonar-small-128k-online">>,
    <<"llama-large", "llama-3.1-sonar-large-128k-online">>,
    <<"ll", "llama-3.1-sonar-large-128k-online">>,
    <<"llama-huge", "llama-3.1-sonar-huge-128k-online">>,
    <<"lh", "llama-3.1-sonar-huge-128k-online">>
  >>

(* The alias resolvers of src_templates/models.rs                          *)

\* The lookup with an empty default in place of the input.
find_map_or_default(mapping, model_id) ==
  LET hits == {i \in DOMAIN mapping : mapping[i][1] = model_id}
      first == CHOOSE i \in hits : \A j \in hits : i <= j
  IN IF hits = {} THEN "" ELSE mapping[first][2]

\* iter().find(|(key, _)| key == &model_id).map_or(model_id, |(_, value)| *value)
find_map_or(mapping, model_id) ==
  LET hits == {i \in DOMAIN mapping : mapping[i][1] = model_id}
      first == CHOOSE i \in hits : \A j \in hits : i <= j
  IN IF hits = {} THEN model_id ELSE mapping[first][2]

get_anthropic_model(model_id) == find_map_or(ANTHROPIC_MODEL_MAPPING, model_id)

get_cerebras_model(model_id) == find_map_or(CEREBRAS_MODEL_MAPPING, model_id)

get_deepseek_model(model_id) == find_map_or(DEEPSEEK_MODEL_MAPPING, model_id)

get_google_model(model_id) == find_map_or(GOOGLE_MODEL_MAPPING, model_id)

get_groq_model(model_id) == find_map_or(GROQ_MODEL_MAPPING, model_id)

get_ollama_model(model_id) == find_map_or(OLLAMA_MODEL_MAPPING, model_id)

get_openai_model(model_id) == find_map_or(OPENAI_MODEL_MAPPING, model_id)

get_xai_model(model_id) == find_map_or(XAI_MODEL_MAPPING, model_id)

\* The Perplexity section of models.rs is not among the sources; the resolver
\* is the ordered first-match lookup with pass-through of spec section 4.1.
get_perplexity_model(model_id) == find_map_or(PERPLEXITY_MODEL_MAPPING, model_id)

\* The provider's alias table (Llamafile has none).
MODEL_MAPPING(provider) ==
  CASE provider = "Anthropic" -> ANTHROPIC_MODEL_MAPPING
    [] provider = "Cerebras" -> CEREBRAS_MODEL_MAPPING
    [] provider = "DeepSeek" -> DEEPSEEK_MODEL_MAPPING
    [] provider = "Google" -> GOOGLE_MODEL_MAPPING
    [] provider = "Groq" -> GROQ_MODEL_MAPPING
    [] provider = "Ollama" -> OLLAMA_MODEL_MAPPING
    [] provider = "OpenAI" -> OPENAI_MODEL_MAPPING
    [] provider = "XAI" -> XAI_MODEL_MAPPING
    [] provider = "Perplexity" -> PERPLEXITY_MODEL_MAPPING
    [] OTHER -> <<>>

\* The resolver the code applies for a provider: the match of get_used_model.
full_model_id(provider, model_id) ==
  CASE provider = "Anthropic" -> get_anthropic_model(model_id)
    [] provider = "Cerebras" -> get_cerebras_model(model_id)
    [] provider = "DeepSeek" -> get_deepseek_model(model_id)
    [] provider = "Google" -> get_google_model(model_id)
    [] provider = "Groq" -> get_groq_model(model_id)
    [] provider = "Llamafile" -> model_id
    [] provider = "Ollama" -> get_ollama_model(model_id)
    [] provider = "OpenAI" -> get_openai_model(model_id)
    [] provider = "XAI" -> get_xai_model(model_id)
    [] provider = "Perplexity" -> get_perplexity_model(model_id)

\* cformat!'s bold markup is kept as the tags, the emoji as ":brain:".
get_used_model(model) ==
  IF is_empty(model.model_id)
    THEN "<bold>:brain: " \o Provider_fmt(model.provider) \o "</bold>"
    ELSE "<bold>:brain: " \o Provider_fmt(model.provider) \o " "
           \o full_model_id(model.provider, model.model_id) \o "</bold>"

(* Configuration: HashMap<String, String>                                  *)

config_get(full_config, key) ==
  IF key \in DOMAIN full_config THEN Some(full_config[key]) ELSE None

get_base_url(full_config, key, default) ==
  LET found == config_get(full_config, key)
  IN IF is_some(found) /\ ~is_empty(found.value)
       THEN trim_end_matches(found.value, "/")
       ELSE default

(* AiRequest and the request builder                                       *)

DEFAULT_MAX_TOKENS == 4096

AiRequest_default ==
  [provider |-> "Anthropic", url |-> "", model |-> "", prompt |-> "",
   max_tokens |-> DEFAULT_MAX_TOKENS, api_key |-> ""]

openai_url(base_url, resolved_model) ==
  IF contains(resolved_model, "-tts")
    THEN base_url \o "/audio/speech"
    ELSE IF starts_with(resolved_model, "gpt-image")
              \/ starts_with(resolved_model, "dall")
           THEN base_url \o "/images/generations"
           ELSE base_url \o "/chat/completions"

xai_url(base_url, resolved_model) ==
  IF resolved_model = "grok-2-image"
    THEN base_url \o "/images/generations"
    ELSE base_url \o "/chat/completions"

default_req_for_model(model, full_config) ==
  LET provider == model.provider
      model_id == model.model_id
      base(key, default) == get_base_url(full_config, key, default)
      with(url, resolved) ==
        [AiRequest_default EXCEPT !.provider = provider, !.url = url,
                                  !.model = resolved]
  IN CASE provider = "Anthropic" ->
            with(base("anthropic_base_url", "https://api.anthropic.com/v1")
                   \o "/messages",
                 get_anthropic_model(model_id))
       [] provider = "Cerebras" ->
            with(base("cerebras_base_url", "https://api.cerebras.ai/v1")
                   \o "/chat/completions",
                 get_cerebras_model(model_id))
       [] provider = "DeepSeek" ->
            with(base("deepseek_base_url", "https://api.deepseek.com")
                   \o "/chat/completions",
                 get_deepseek_model(model_id))
       [] provider = "Google" ->
            with(base("google_base_url",
                      "https://generativelanguage.googleapis.com/v1beta")
                   \o "/models",
                 get_google_model(model_id))
       [] provider = "Groq" ->
            with(base("groq_base_url", "https://api.groq.com/openai/v1")
                   \o "/chat/completions",
                 get_groq_model(model_id))
       [] provider = "Llamafile" ->
            \* model is left at its default, the empty string
            with(base("llamafile_base_url", "http://localhost:8080/v1")
                   \o "/chat/completions",
                 AiRequest_default.model)
       [] provider = "Ollama" ->
            with(base("ollama_base_url", "http://localhost:11434/v1")
                   \o "/chat/completions",
                 get_ollama_model(model_id))
       [] provider = "OpenAI" ->
            with(openai_url(base("openai_base_url", "https://api.openai.com/v1"),
                            get_openai_model(model_id)),
                 get_openai_model(model_id))
       [] provider = "XAI" ->
            with(xai_url(base("xai_base_url", "https://api.x.ai/v1"),
                         get_xai_model(model_id)),
                 get_xai_model(model_id))
       [] provider = "Perplexity" ->
            with(base("perplexity_base_url", "https://api.perplexity.ai")
                   \o "/chat/completions",
                 get_perplexity_model(model_id))

\* The backquotes around the field names are written as single quotes.
get_key_setup_msg(secrets_path_str) ==
  "An API key must be provided. Use one of the following options:\n"
    \o "\n"
    \o "1. Set one or more API keys in " \o secrets_path_str \o "\n"
    \o "('anthropic_api_key', 'google_api_key', 'groq_api_key', 'openai_api_key', 'perplexity_api_key')\n"
    \o "2. Set one or more cai specific env variables\n"
    \o "(CAI_ANTHROPIC_API_KEY, CAI_GOOGLE_API_KEY, CAI_GROQ_API_KEY, CAI_OPENAI_API_KEY, CAI_PERPLEXITY_API_KEY)\n"
    \o "3. Set one or more generic env variables\n"
    \o "(ANTHROPIC_API_KEY, GOOGLE_API_KEY, GROQ_API_KEY, OPENAI_API_KEY, PERPLEXITY_API_KEY)\n"

DUMMY_KEY == "DUMMY_KEY"

\* The match of get_api_request: where the provider's key is looked up.
provider_api_key(full_config, provider) ==
  CASE provider = "Anthropic" -> config_get(full_config, "anthropic_api_key")
    [] provider = "Cerebras" -> config_get(full_config, "cerebras_api_key")
    [] provider = "DeepSeek" -> config_get(full_config, "deepseek_api_key")
    [] provider = "Google" -> config_get(full_config, "google_api_key")
    [] provider = "Groq" -> config_get(full_config, "groq_api_key")
    [] provider = "Llamafile" -> Some(DUMMY_KEY)
    [] provider = "Ollama" -> Some(DUMMY_KEY)
    [] provider = "OpenAI" -> config_get(full_config, "openai_api_key")
    [] provider = "XAI" -> config_get(full_config, "xai_api_key")
    [] provider = "Perplexity" -> config_get(full_config, "perplexity_api_key")

\* get_api_request without its filter on empty keys.
get_api_request_accepting_empty_key(full_config, secrets_path_str, model) ==
  LET found == provider_api_key(full_config, model.provider)
  IN IF is_some(found)
       THEN Ok([default_req_for_model(model, full_config)
                  EXCEPT !.api_key = found.value])
       ELSE Err(get_key_setup_msg(secrets_path_str))

get_api_request(full_config, secrets_path_str, model) ==
  LET found == provider_api_key(full_config, model.provider)
  IN IF is_some(found) /\ ~is_empty(found.value)
       THEN Ok([default_req_for_model(model, full_config)
                  EXCEPT !.api_key = found.value])
       ELSE Err(get_key_setup_msg(secrets_path_str))

\* get_http_req with OpenAI tried before Groq when no model is given.
get_http_req_openai_first(optional_model, secrets_path_str, full_config) ==
  IF is_some(optional_model)
    THEN LET req == get_api_request(full_config, secrets_path_str,
                                    optional_model.value)
         IN IF is_ok(req)
              THEN Ok(<<get_used_model(optional_model.value), req.value>>)
              ELSE req
    ELSE LET req ==
               or(or(get_api_request(full_config, secrets_path_str,
                                     Model("OpenAI", "gpt-5-mini")),
                     get_api_request(full_config, secrets_path_str,
                                     Model("Groq", "openai/gpt-oss-20b"))),
                  get_api_request(full_config, secrets_path_str,
                                  Model("Anthropic", "claude-haiku-4-5")))
         IN IF is_ok(req)
              THEN Ok(<<get_used_model(Model(req.value.provider,
                                             req.value.model)),
                        req.value>>)
              ELSE req

\* get_http_req going on to the default providers when the given model's
\* provider has no usable key.
get_http_req_falling_back(optional_model, secrets_path_str, full_config) ==
  LET req ==
        or(or(or(or(IF is_some(optional_model)
                      THEN get_api_request(full_config, secrets_path_str,
                                           optional_model.value)
                      ELSE Err(""),
                    get_api_request(full_config, secrets_path_str,
                                    Model_default)),
                 get_api_request(full_config, secrets_path_str,
                                 Model("Groq", "openai/gpt-oss-20b"))),
              get_api_request(full_config, secrets_path_str,
                              Model("OpenAI", "gpt-5-mini"))),
           get_api_request(full_config, secrets_path_str,
                           Model("Anthropic", "claude-haiku-4-5")))
  IN IF is_ok(req)
       THEN Ok(<<get_used_model(Model(req.value.provider, req.value.model)),
                 req.value>>)
       ELSE req

\* Returns Ok(<<used_model, req>>) or Err(message).
get_http_req(optional_model, secrets_path_str, full_config) ==
  IF is_some(optional_model)
    THEN LET req == get_api_request(full_config, secrets_path_str,
                                    optional_model.value)
         IN IF is_ok(req)
              THEN Ok(<<get_used_model(optional_model.value), req.value>>)
              ELSE req
    ELSE LET req ==
               or(or(or(get_api_request(full_config, secrets_path_str,
                                        Model_default),
                        get_api_request(full_config, secrets_path_str,
                                        Model("Groq", "openai/gpt-oss-20b"))),
                     get_api_request(full_config, secrets_path_str,
                                     Model("OpenAI", "gpt-5-mini"))),
                  get_api_request(full_config, secrets_path_str,
                                  Model("Anthropic", "claude-haiku-4-5")))
         IN IF is_ok(req)
              THEN Ok(<<get_used_model(Model(req.value.provider,
                                             req.value.model)),
                        req.value>>)
              ELSE req

(* serde_json::from_str on the documents the model's inputs hold: a scalar *)
(* (null, true, false, an unsigned integer, a string without escapes) or   *)
(* an empty array or object, with JSON whitespace around it.  Any other    *)
(* text is rejected; the input sets below hold no other JSON document.     *)

JSON_WHITESPACE == {" ", "\n", "\t", "\r"}

DIGITS == "0123456789"

char_at(s, i) == SubSeq(s, i, i)

RECURSIVE trim_json_whitespace(_)
trim_json_whitespace(s) ==
  IF Len(s) > 0 /\ char_at(s, 1) \in JSON_WHITESPACE
    THEN trim_json_whitespace(SubSeq(s, 2, Len(s)))
    ELSE IF Len(s) > 0 /\ char_at(s, Len(s)) \in JSON_WHITESPACE
           THEN trim_json_whitespace(SubSeq(s, 1, Len(s) - 1))
           ELSE s

is_digit(c) == \E d \in 1..Len(DIGITS) : char_at(DIGITS, d) = c

digit_value(c) == (CHOOSE d \in 1..Len(DIGITS) : char_at(DIGITS, d) = c) - 1

RECURSIVE parse_unsigned(_)
parse_unsigned(s) ==
  IF Len(s) = 0
    THEN 0
    ELSE parse_unsigned(SubSeq(s, 1, Len(s) - 1)) * 10
           + digit_value(char_at(s, Len(s)))

is_unsigned_literal(s) ==
  /\ Len(s) > 0
  /\ \A i \in 1..Len(s) : is_digit(char_at(s, i))
  /\ Len(s) = 1 \/ char_at(s, 1) # "0"

is_plain_string_literal(s) ==
  /\ Len(s) >= 2
  /\ char_at(s, 1) = "\""
  /\ char_at(s, Len(s)) = "\""
  /\ \A i \in 2..(Len(s) - 1) : char_at(s, i) \notin {"\"", "\\", "\n", "\t", "\r"}

serde_json_from_str(text) ==
  LET s == trim_json_whitespace(text)
  IN CASE s = "null" -> Ok(Null)
       [] s = "true" -> Ok(Bool(TRUE))
       [] s = "false" -> Ok(Bool(FALSE))
       [] s = "[]" -> Ok(Arr(<<>>))
       [] s = "{}" -> Ok(Obj(Map_new))
       [] is_unsigned_literal(s) -> Ok(Num(parse_unsigned(s)))
       [] is_plain_string_literal(s) -> Ok(Str(SubSeq(s, 2, Len(s) - 1)))
       [] OTHER -> Err("expected value")

(* ExecOptions and the subcommand (types.rs Commands) it carries           *)

\* A Commands value: its variant, its model argument (Commands::Openai) and
\* its prompt words.
Command(cmd, model, prompt) == [cmd |-> cmd, model |-> model, prompt |-> prompt]

ExecOptions(is_raw, is_json, json_schema, subcommand) ==
  [is_raw |-> is_raw, is_json |-> is_json, json_schema |-> json_schema,
   subcommand |-> subcommand]

\* matches!(Some(Commands::Openai { model, .. }) if model == "image")
\*   || matches!(Some(Commands::Image { .. }))
is_image_generation(opts) ==
  /\ is_some(opts.subcommand)
  /\ \/ (opts.subcommand.value.cmd = "Openai"
           /\ opts.subcommand.value.model = "image")
     \/ opts.subcommand.value.cmd = "Image"

(* The payload shaper.  It returns a body, or ends the process:            *)
(* std::process::exit(1) after a line on standard error.                   *)

Return(value) == [tag |-> "Return", value |-> value]

ProcessExit(code, stderr) == [tag |-> "ProcessExit", code |-> code, stderr |-> stderr]

google_body(http_req, user_input) ==
  LET contents ==
        insert(insert(Map_new, "role", Str("user")),
               "parts", Arr(<<Obj(insert(Map_new, "text", Str(user_input)))>>))
      generation_config ==
        insert(Map_new, "maxOutputTokens", Num(http_req.max_tokens))
      generation_config_image ==
        IF contains(http_req.model, "-image")
          THEN insert(generation_config, "responseModalities",
                      Arr(<<Str("IMAGE")>>))
          ELSE generation_config
  IN Obj(insert(insert(Map_new, "contents", Arr(<<Obj(contents)>>)),
                "generationConfig", Obj(generation_config_image)))

tts_body(http_req, user_input) ==
  Obj(insert(insert(insert(Map_new, "model", Str(http_req.model)),
                    "input", Str(user_input)),
             "voice", Str("alloy")))

openai_image_body(http_req, user_input) ==
  Obj(insert(insert(Map_new, "model", Str(http_req.model)),
             "prompt", Str(user_input)))

xai_image_body(http_req, user_input) ==
  Obj(insert(insert(insert(Map_new, "model", Str(http_req.model)),
                    "prompt", Str(user_input)),
             "n", Num(1)))

\* uses_max_completion_tokens without the gpt-5 prefix.
uses_max_completion_tokens_without_gpt5(http_req) ==
  /\ http_req.provider = "OpenAI"
  /\ \/ starts_with(http_req.model, "o1")
     \/ starts_with(http_req.model, "o3")
     \/ starts_with(http_req.model, "o4")

\* OpenAI o1, o3, o4 and gpt-5 models take max_completion_tokens.
uses_max_completion_tokens(http_req) ==
  /\ http_req.provider = "OpenAI"
  /\ \/ starts_with(http_req.model, "o1")
     \/ starts_with(http_req.model, "o3")
     \/ starts_with(http_req.model, "o4")
     \/ starts_with(http_req.model, "gpt-5")

token_budget_field(http_req) ==
  IF uses_max_completion_tokens(http_req)
    THEN "max_completion_tokens"
    ELSE "max_tokens"

supports_json_mode(provider) == provider \in {"OpenAI", "Groq", "Ollama"}

supports_json_schema(provider) == provider \in {"OpenAI", "Ollama"}

\* The chat body with the descriptor's api_key as a field.
chat_body_with_api_key(opts, http_req, user_input) ==
  Return(Obj(insert(insert(insert(insert(Map_new,
    "model", Str(http_req.model)),
    token_budget_field(http_req), Num(http_req.max_tokens)),
    "api_key", Str(http_req.api_key)),
    "messages", Arr(<<Obj(insert(insert(Map_new, "role", Str("user")),
                                 "content", Str(user_input)))>>))))

\* The chat body with a stream field next to the three of the default shape.
chat_body_with_stream(opts, http_req, user_input) ==
  Return(Obj(insert(insert(insert(insert(Map_new,
    "model", Str(http_req.model)),
    token_budget_field(http_req), Num(http_req.max_tokens)),
    "stream", Bool(FALSE)),
    "messages", Arr(<<Obj(insert(insert(Map_new, "role", Str("user")),
                                 "content", Str(user_input)))>>))))

chat_body(opts, http_req, user_input) ==
  LET map1 ==
        insert(insert(Map_new, "model", Str(http_req.model)),
               token_budget_field(http_req), Num(http_req.max_tokens))
      map2 ==
        IF opts.is_json
          THEN insert(map1, "response_format",
                      Obj(insert(Map_new, "type", Str("json_object"))))
          ELSE map1
      map3 ==
        IF is_some(opts.json_schema)
          THEN insert(map2, "response_format",
                      Obj(insert(insert(Map_new, "type", Str("json_schema")),
                                 "json_schema", opts.json_schema.value)))
          ELSE map2
      messages ==
        Arr(<<Obj(insert(insert(Map_new, "role", Str("user")),
                         "content", Str(user_input)))>>)
  IN IF opts.is_json /\ ~supports_json_mode(http_req.provider)
       THEN ProcessExit(1, "<red>ERROR: " \o Provider_fmt(http_req.provider)
                             \o " doesn't support a JSON mode</red>")
       ELSE IF is_some(opts.json_schema)
                 /\ ~supports_json_schema(http_req.provider)
              THEN ProcessExit(1, "<red>ERROR: "
                                    \o Provider_fmt(http_req.provider)
                                    \o " doesn't support a JSON schema mode</red>")
              ELSE Return(Obj(insert(map3, "messages", messages)))

\* get_req_body_obj with the Google shape ahead of the JSON pass-through.
get_req_body_obj_google_first(opts, http_req, user_input) ==
  IF http_req.provider = "Google"
    THEN Return(google_body(http_req, user_input))
    ELSE
      LET parsed == serde_json_from_str(user_input)
      IN IF is_ok(parsed)
           THEN Return(parsed.value)
           ELSE IF http_req.provider = "Google"
             THEN Return(google_body(http_req, user_input))
             ELSE IF http_req.provider = "OpenAI" /\ contains(http_req.model, "-tts")
               THEN Return(tts_body(http_req, user_input))
               ELSE IF http_req.provider = "OpenAI"
                         /\ (\/ is_image_generation(opts)
                             \/ starts_with(http_req.model, "gpt-image")
                             \/ starts_with(http_req.model, "dall-e"))
                 THEN Return(openai_image_body(http_req, user_input))
                 ELSE IF http_req.provider = "XAI" /\ http_req.model = "grok-2-image"
                   THEN Return(xai_image_body(http_req, user_input))
                   ELSE chat_body(opts, http_req, user_input)

get_req_body_obj(opts, http_req, user_input) ==
  LET parsed == serde_json_from_str(user_input)
  IN IF is_ok(parsed)
       THEN Return(parsed.value)
       ELSE IF http_req.provider = "Google"
         THEN Return(google_body(http_req, user_input))
         ELSE IF http_req.provider = "OpenAI" /\ contains(http_req.model, "-tts")
           THEN Return(tts_body(http_req, user_input))
           ELSE IF http_req.provider = "OpenAI"
                     /\ (\/ is_image_generation(opts)
                         \/ starts_with(http_req.model, "gpt-image")
                         \/ starts_with(http_req.model, "dall-e"))
             THEN Return(openai_image_body(http_req, user_input))
             ELSE IF http_req.provider = "XAI" /\ http_req.model = "grok-2-image"
               THEN Return(xai_image_body(http_req, user_input))
               ELSE chat_body(opts, http_req, user_input)

(* Formatting and text helpers of lib.rs                                   *)

\* Display of an unsigned integer.
RECURSIVE to_string(_)
to_string(n) ==
  IF n < 10
    THEN char_at(DIGITS, n + 1)
    ELSE to_string(n \div 10) \o char_at(DIGITS, (n % 10) + 1)

\* [&str]::join
RECURSIVE join(_, _)
join(words, sep) ==
  IF words = <<>>
    THEN ""
    ELSE IF Len(words) = 1
           THEN words[1]
           ELSE words[1] \o sep \o join(Tail(words), sep)

\* str::split on a one-character separator: the pieces, empty ones included.
RECURSIVE split(_, _)
split(s, sep) ==
  LET cuts == {i \in 1..Len(s) : char_at(s, i) = sep}
      first == CHOOSE i \in cuts : \A j \in cuts : i <= j
  IN IF cuts = {}
       THEN <<s>>
       ELSE <<SubSeq(s, 1, first - 1)>> \o split(SubSeq(s, first + 1, Len(s)), sep)

UPPERCASE == "ABCDEFGHIJKLMNOPQRSTUVWXYZ"

LOWERCASE == "abcdefghijklmnopqrstuvwxyz"

\* char::to_lowercase and char::is_alphanumeric, on ASCII.
to_lowercase_char(c) ==
  IF \E i \in 1..Len(UPPERCASE) : char_at(UPPERCASE, i) = c
    THEN char_at(LOWERCASE, CHOOSE i \in 1..Len(UPPERCASE) : char_at(UPPERCASE, i) = c)
    ELSE c

is_alphanumeric(c) ==
  \/ \E i \in 1..Len(LOWERCASE) : char_at(LOWERCASE, i) = c
  \/ \E i \in 1..Len(UPPERCASE) : char_at(UPPERCASE, i) = c
  \/ is_digit(c)

\* str::to_lowercase
RECURSIVE to_lowercase(_)
to_lowercase(s) ==
  IF Len(s) = 0
    THEN ""
    ELSE to_lowercase_char(char_at(s, 1)) \o to_lowercase(SubSeq(s, 2, Len(s)))

\* chars().map(|c| if c.is_alphanumeric() { c } else { '_' }).collect()
RECURSIVE underscore_non_alphanumeric(_)
underscore_non_alphanumeric(s) ==
  IF Len(s) = 0
    THEN ""
    ELSE (IF is_alphanumeric(char_at(s, 1)) THEN char_at(s, 1) ELSE "_")
           \o underscore_non_alphanumeric(SubSeq(s, 2, Len(s)))

FILLER_WORDS ==
  {"a", "an", "the", "of", "in", "on", "at", "to", "for", "with", "and", "or",
   "is", "it", "that", "this", "as", "by", "from"}

SHORT_NAME_MAX == 30

prompt_to_short_name(prompt) ==
  LET pieces == split(underscore_non_alphanumeric(to_lowercase(prompt)), "_")
      kept == SelectSeq(pieces, LAMBDA s : ~is_empty(s) /\ s \notin FILLER_WORDS)
      joined == join(kept, "_")
  IN SubSeq(joined, 1, IF Len(joined) < SHORT_NAME_MAX THEN Len(joined)
                                                        ELSE SHORT_NAME_MAX)

ELAPSED_SECONDS_ABOVE == 10000

RECURSIVE pow2_mod_125(_)
pow2_mod_125(k) == IF k = 0 THEN 1 ELSE (2 * pow2_mod_125(k - 1)) % 125

RECURSIVE f64_exponent(_)
f64_exponent(seconds) == IF seconds < 2 THEN 0 ELSE 1 + f64_exponent(seconds \div 2)

\* millis as f64 / 1000.0, for 1000 <= millis: the quotient rounded to the
\* nearest double (53 bits).  With e the exponent of the quotient, the double
\* is a multiple of 2^(e-52), and millis * 2^(49-e) mod 125 tells on which
\* side of the quotient it lies: "equal", "below" or "above".
f64_seconds_side(millis) ==
  LET r == (millis * pow2_mod_125(49 - f64_exponent(millis \div 1000))) % 125
  IN IF r = 0 THEN "equal" ELSE IF r <= 62 THEN "below" ELSE "above"

\* format_elapsed_time with seconds from 10000 ms on.
format_elapsed_time_seconds_from_10000(elapsed_millis) ==
  IF elapsed_millis >= ELAPSED_SECONDS_ABOVE
    THEN LET tenths == (elapsed_millis + 50) \div 100
         IN <<to_string(tenths \div 10) \o "." \o to_string(tenths % 10), "s">>
    ELSE <<to_string(elapsed_millis), "ms">>

\* format!("{:.1}", millis as f64 / 1000.0): the decimal expansion of the
\* double is rounded to the nearest tenth, an exact half to the even digit.
format_elapsed_time(elapsed_millis) ==
  IF elapsed_millis > ELAPSED_SECONDS_ABOVE
    THEN LET down == elapsed_millis \div 100
             rest == elapsed_millis % 100
             up == \/ rest > 50
                   \/ /\ rest = 50
                      /\ \/ f64_seconds_side(elapsed_millis) = "above"
                         \/ /\ f64_seconds_side(elapsed_millis) = "equal"
                            /\ down % 2 = 1
             tenths == IF up THEN down + 1 ELSE down
         IN <<to_string(tenths \div 10) \o "." \o to_string(tenths % 10), "s">>
    ELSE <<to_string(elapsed_millis), "ms">>

\* Utc::now().format("%Y-%m-%dt%H%M") at the clock's minute, counted from
\* 2025-08-17 19:00.
timestamp_prefix(minute) ==
  "2025-08-17t19" \o (IF minute < 10 THEN "0" ELSE "") \o to_string(minute)

\* Commands::to_string_pretty (types.rs)
Commands_to_string_pretty(command) ==
  CASE command.cmd = "Value" -> Some("Value")
    [] command.cmd = "Svg" -> Some("SVG")
    [] command.cmd = "Ocr" -> Some("OCR")
    [] command.cmd = "Rename" -> Some("Rename")
    [] command.cmd = "Changelog" -> Some("Changelog")
    [] command.cmd = "Reply" -> Some("Reply")
    [] command.cmd = "Rewrite" -> Some("Rewrite")
    [] command.cmd = "Transcribe" -> Some("Transcribe")
    [] command.cmd = "Image" -> Some("Image")
    [] OTHER -> None

\* The "subcommand | " prefix of the metadata line; the arrow emoji is
\* written ":arrow:".
subcommand_prefix(opts) ==
  IF is_some(opts.subcommand)
       /\ is_some(Commands_to_string_pretty(opts.subcommand.value))
    THEN ":arrow: " \o Commands_to_string_pretty(opts.subcommand.value).value
           \o " | "
    ELSE ""

\* The metadata line of exec_tool; the stopwatch emoji is written ":time:".
metadata_line(opts, used_model, elapsed_millis) ==
  "<bold>" \o subcommand_prefix(opts) \o used_model \o " | :time: "
    \o format_elapsed_time(elapsed_millis)[1] \o " "
    \o format_elapsed_time(elapsed_millis)[2] \o "</bold>\n"

(* serde_json::to_string_pretty: two spaces of indent per level.  The      *)
(* strings of the model hold no character that needs escaping; an object's *)
(* keys are written in one fixed order.                                    *)

RECURSIVE spaces(_)
spaces(n) == IF n = 0 THEN "" ELSE " " \o spaces(n - 1)

RECURSIVE keys_in_order(_)
keys_in_order(keys) ==
  IF keys = {}
    THEN <<>>
    ELSE LET k == CHOOSE x \in keys : TRUE
         IN <<k>> \o keys_in_order(keys \ {k})

RECURSIVE pretty(_, _)
pretty(json, indent) ==
  LET lines(items) == join(items, ",\n")
      element(i) == spaces(indent + 2) \o pretty(json.v[i], indent + 2)
      member(k) ==
        spaces(indent + 2) \o "\"" \o k \o "\": " \o pretty(json.v[k], indent + 2)
      keys == keys_in_order(DOMAIN json.v)
  IN CASE json.t = "null" -> "null"
       [] json.t = "bool" -> IF json.v THEN "true" ELSE "false"
       [] json.t = "number" -> to_string(json.v)
       [] json.t = "string" -> "\"" \o json.v \o "\""
       [] json.t = "array" ->
            IF json.v = <<>>
              THEN "[]"
              ELSE "[\n" \o lines([i \in DOMAIN json.v |-> element(i)])
                     \o "\n" \o spaces(indent) \o "]"
       [] json.t = "object" ->
            IF DOMAIN json.v = {}
              THEN "{}"
              ELSE "{\n" \o lines([i \in DOMAIN keys |-> member(keys[i])])
                     \o "\n" \o spaces(indent) \o "}"

to_string_pretty(json) == pretty(json, 0)

(* base64: general_purpose::STANDARD.decode accepts a text of the standard *)
(* alphabet whose length is a multiple of four, padded at its end only.    *)
(* The decoded bytes are denoted by the text they were decoded from.       *)

BASE64_ALPHABET ==
  "ABCDEFGHIJKLMNOPQRSTUVWXYZabcdefghijklmnopqrstuvwxyz0123456789+/"

is_base64_char(c) == \E i \in 1..Len(BASE64_ALPHABET) : char_at(BASE64_ALPHABET, i) = c

base64_decode(text) ==
  LET n == Len(text)
      pad == IF n >= 2 /\ SubSeq(text, n - 1, n) = "=="
               THEN 2
               ELSE IF n >= 1 /\ char_at(text, n) = "=" THEN 1 ELSE 0
  IN IF n % 4 = 0 /\ \A i \in 1..(n - pad) : is_base64_char(char_at(text, i))
       THEN Ok([decoded_from |-> text])
       ELSE Err("Invalid padding")

(* HTTP responses, and the deserialization of their bodies                 *)

\* A response body: the text of a JSON document, or other bytes.
JsonBody(value) == [kind |-> "json", value |-> value]

BytesBody(text) == [kind |-> "bytes", text |-> text]

HttpResponse(status_success, body) ==
  [tag |-> "Response", status_success |-> status_success, body |-> body]

\* exec_request failed: no response (connection refused, DNS, timeout).
TransportError == [tag |-> "TransportError"]

\* resp.json::<Value>(), and resp.text() followed by serde_json::from_str
response_json(resp) ==
  IF resp.body.kind = "json"
    THEN Ok(resp.body.value)
    ELSE Err("error decoding response body")

is_AiChoice(json) ==
  /\ contains_key(json, "message")
  /\ contains_key(json.v["message"], "content")
  /\ json.v["message"].v["content"].t = "string"

is_SearchResult(json) ==
  /\ contains_key(json, "title") /\ json.v["title"].t = "string"
  /\ contains_key(json, "url") /\ json.v["url"].t = "string"
  /\ index_key(json, "date").t \in {"null", "string"}
  /\ index_key(json, "last_updated").t \in {"null", "string"}

\* resp.json::<AiResponse>(): choices is required; search_results may be
\* absent or null.
de_AiResponse(resp) ==
  LET parsed == response_json(resp)
      json == parsed.value
      choices == index_key(json, "choices")
      search_results == index_key(json, "search_results")
  IN IF is_err(parsed)
       THEN parsed
       ELSE IF /\ choices.t = "array"
               /\ \A i \in DOMAIN choices.v : is_AiChoice(choices.v[i])
               /\ \/ search_results.t = "null"
                  \/ /\ search_results.t = "array"
                     /\ \A i \in DOMAIN search_results.v :
                          is_SearchResult(search_results.v[i])
              THEN Ok([choices |->
                         [i \in DOMAIN choices.v |->
                            [message |->
                               [content |->
                                  choices.v[i].v["message"].v["content"].v]]],
                       search_results |->
                         IF search_results.t = "null"
                           THEN None
                           ELSE Some(search_results.v)])
              ELSE Err("error decoding response body")

\* resp.json::<AnthropicAiResponse>()
de_AnthropicAiResponse(resp) ==
  LET parsed == response_json(resp)
      content == index_key(parsed.value, "content")
  IN IF is_err(parsed)
       THEN parsed
       ELSE IF /\ content.t = "array"
               /\ \A i \in DOMAIN content.v :
                    /\ contains_key(content.v[i], "text")
                    /\ content.v[i].v["text"].t = "string"
              THEN Ok([content |->
                         [i \in DOMAIN content.v |->
                            [text |-> content.v[i].v["text"].v]]])
              ELSE Err("error decoding response body")

(* exec_tool after the response: what it returns, or the files it saves    *)

\* exec_tool returns: its result and the message it printed, if any.
Finished(res, msg) == [tag |-> "Finished", result |-> res, msg |-> msg]

\* exec_tool panics (an index out of bounds on a Vec, a missing map key).
Panicked(message) == [tag |-> "Panicked", message |-> message]

\* exec_tool goes on to save files, one job each.
Saving(jobs) == [tag |-> "Saving", jobs |-> jobs]

\* A file to save: '<timestamp>_<stem>.<ext>' or a numbered variant.
\* pre_increment: the counter is raised before the name is formed (the
\* OpenAI image loop) instead of after (speech, Google image).
\* fatal: a failed write ends exec_tool with the error (speech) instead of
\* being reported and skipped (images).
SaveJob(stem, ext, pre_increment, fatal, bytes) ==
  [kind |-> "save", stem |-> stem, ext |-> ext,
   pre_increment |-> pre_increment, fatal |-> fatal, bytes |-> bytes]

RECURSIVE concat_all(_)
concat_all(seqs) ==
  IF seqs = <<>> THEN <<>> ELSE Head(seqs) \o concat_all(Tail(seqs))

\* The prompt the file name is derived from (OpenAI image loop).
openai_original_prompt(opts, user_input) ==
  IF is_some(opts.subcommand) /\ opts.subcommand.value.cmd \in {"Photo", "Image"}
    THEN join(opts.subcommand.value.prompt, " ")
    ELSE user_input

\* The prompt the file name is derived from (Google image loop).
google_original_prompt(opts, user_input) ==
  IF is_some(opts.subcommand) /\ opts.subcommand.value.cmd = "GoogleImage"
    THEN join(opts.subcommand.value.prompt, " ")
    ELSE user_input

\* The entries of data[] that carry base64 that decodes.
openai_image_jobs(response_json_value, opts, user_input) ==
  LET data == as_array(index_key(response_json_value, "data"))
      decodable(image_data) ==
        /\ is_some(as_str(index_key(image_data, "b64_json")))
        /\ is_ok(base64_decode(index_key(image_data, "b64_json").v))
      job(image_data) ==
        SaveJob(prompt_to_short_name(openai_original_prompt(opts, user_input)),
                "png", TRUE, FALSE,
                base64_decode(index_key(image_data, "b64_json").v).value)
  IN IF is_some(data)
       THEN LET kept == SelectSeq(data.value, decodable)
            IN [i \in DOMAIN kept |-> job(kept[i])]
       ELSE <<>>

\* candidates[].content.parts[], flattened in order.
google_parts(response_json_value) ==
  LET candidates == as_array(index_key(response_json_value, "candidates"))
      parts_of(candidate) ==
        LET parts == as_array(index_key(index_key(candidate, "content"), "parts"))
        IN IF is_some(parts) THEN parts.value ELSE <<>>
  IN IF is_some(candidates)
       THEN concat_all([i \in DOMAIN candidates.value |->
                          parts_of(candidates.value[i])])
       ELSE <<>>

\* inline_data["data"] indexes a Map: it panics when the key is missing.
google_part_panics(part) ==
  /\ is_some(as_object(index_key(part, "inlineData")))
  /\ ~contains_key(index_key(part, "inlineData"), "data")

\* The loop reaches a part whose indexing panics.
PanicJob(message) == [kind |-> "panic", message |-> message]

\* The parts that carry base64 that decodes, in order, up to the first part
\* whose indexing panics.
google_image_jobs(response_json_value, opts, user_input) ==
  LET parts == google_parts(response_json_value)
      panicking == {i \in DOMAIN parts : google_part_panics(parts[i])}
      reached ==
        IF panicking = {}
          THEN parts
          ELSE SubSeq(parts, 1,
                      (CHOOSE i \in panicking : \A j \in panicking : i <= j) - 1)
      decodable(part) ==
        /\ is_some(as_object(index_key(part, "inlineData")))
        /\ is_some(as_str(index_key(index_key(part, "inlineData"), "data")))
        /\ is_ok(base64_decode(index_key(index_key(part, "inlineData"), "data").v))
      job(part) ==
        SaveJob(prompt_to_short_name(google_original_prompt(opts, user_input)),
                "png", FALSE, FALSE,
                base64_decode(index_key(index_key(part, "inlineData"), "data").v).value)
      kept == SelectSeq(reached, decodable)
  IN [i \in DOMAIN kept |-> job(kept[i])]
       \o (IF panicking = {} THEN <<>>
                              ELSE <<PanicJob("no entry found for key")>>)

\* The non-2xx branch printing the provider's reply to standard output and
\* returning Ok.
provider_error_on_stdout(opts, used_model, resp, elapsed_millis) ==
  [tag |-> "Printing", msg |-> "",
   chunks |-> <<metadata_line(opts, used_model, elapsed_millis)>>]

\* The non-2xx branch of exec_tool.
provider_error(opts, used_model, resp, elapsed_millis) ==
  LET resp_json == response_json(resp)
  IN IF is_err(resp_json)
       THEN Finished(resp_json, "")
       ELSE Finished(Err(metadata_line(opts, used_model, elapsed_millis) \o "\n"
                           \o to_string_pretty(resp_json.value)),
                     "")

\* exec_tool goes on to print these chunks, one print call each.
Printing(msg, chunks) == [tag |-> "Printing", msg |-> msg, chunks |-> chunks]

\* unwrap_or_default that yields the text null for a missing string.
unwrap_or_null_text(o) == IF is_some(o) THEN o.value ELSE "null"

\* Option<&str>::unwrap_or_default
unwrap_or_default(o) == IF is_some(o) THEN o.value ELSE ""

\* The lines printed for the search results of a Perplexity reply.
RECURSIVE search_result_lines(_, _)
search_result_lines(results, index) ==
  IF results = <<>>
    THEN <<>>
    ELSE LET r == Head(results)
         IN <<"[" \o to_string(index) \o "] " \o r.v["title"].v \o " ("
                \o r.v["url"].v \o ")\n">>
              \o (IF index_key(r, "date").t = "string"
                    THEN <<"    Date: " \o r.v["date"].v \o "\n">> ELSE <<>>)
              \o (IF index_key(r, "last_updated").t = "string"
                    THEN <<"    Updated: " \o r.v["last_updated"].v \o "\n">>
                    ELSE <<>>)
              \o search_result_lines(Tail(results), index + 1)

\* The print calls at the end of exec_tool, in order: println! of the
\* message when raw; otherwise cprintln! of the metadata line, text_via_bat
\* of the message, the search results, println!("\n").
print_chunks(opts, used_model, elapsed_millis, msg, search_results) ==
  IF opts.is_raw
    THEN <<msg \o "\n">>
    ELSE <<metadata_line(opts, used_model, elapsed_millis) \o "\n", msg>>
           \o (IF is_some(search_results) /\ search_results.value # <<>>
                 THEN <<"\n\n## Search Results\n\n">>
                        \o search_result_lines(search_results.value, 1)
                 ELSE <<>>)
           \o <<"\n\n">>

\* The text extraction at the end of exec_tool, and what it prints.
extract_message(opts, used_model, http_req, resp, elapsed_millis) ==
  CASE http_req.provider = "Anthropic" ->
         LET anth_response == de_AnthropicAiResponse(resp)
         IN IF is_err(anth_response)
              THEN Finished(anth_response, "")
              ELSE IF anth_response.value.content = <<>>
                     THEN Panicked("index out of bounds: the len is 0 but the index is 0")
                     ELSE Printing(anth_response.value.content[1].text,
                                   print_chunks(opts, used_model, elapsed_millis,
                                                anth_response.value.content[1].text,
                                                None))
    [] http_req.provider = "Google" ->
         LET response_json_value == response_json(resp)
             text ==
               as_str(index_key(index_at(index_key(index_key(index_at(
                 index_key(response_json_value.value, "candidates"), 0),
                 "content"), "parts"), 0), "text"))
         IN IF is_err(response_json_value)
              THEN Finished(response_json_value, "")
              ELSE Printing(unwrap_or_default(text),
                            print_chunks(opts, used_model, elapsed_millis,
                                         unwrap_or_default(text), None))
    [] OTHER ->
         LET ai_response == de_AiResponse(resp)
         IN IF is_err(ai_response)
              THEN Finished(ai_response, "")
              ELSE IF ai_response.value.choices = <<>>
                     THEN Panicked("index out of bounds: the len is 0 but the index is 0")
                     ELSE Printing(ai_response.value.choices[1].message.content,
                                   print_chunks(opts, used_model, elapsed_millis,
                                                ai_response.value.choices[1].message.content,
                                                ai_response.value.search_results))

\* exec_tool from the return of exec_request on.
handle_response(opts, http_req, used_model, user_input, resp, elapsed_millis) ==
  IF resp.tag = "TransportError"
    THEN Finished(Err("error sending request for url (" \o http_req.url \o ")"), "")
    ELSE IF ~resp.status_success
      THEN provider_error(opts, used_model, resp, elapsed_millis)
      ELSE IF http_req.provider = "OpenAI" /\ contains(http_req.model, "-tts")
        THEN Saving(<<SaveJob("output", "mp3", FALSE, TRUE, resp.body)>>)
        ELSE IF http_req.provider = "OpenAI"
                  /\ (\/ starts_with(http_req.model, "dall-e")
                      \/ starts_with(http_req.model, "gpt-image")
                      \/ is_image_generation(opts))
          THEN IF is_err(response_json(resp))
                 THEN Finished(response_json(resp), "")
                 ELSE Saving(openai_image_jobs(response_json(resp).value, opts,
                                               user_input))
          ELSE IF http_req.provider = "XAI" /\ http_req.model = "grok-2-image"
            THEN IF is_err(response_json(resp))
                   THEN Finished(response_json(resp), "")
                   ELSE Finished(Ok("unit"), "")
            ELSE IF http_req.provider = "Google" /\ contains(http_req.model, "-image")
              THEN IF is_err(response_json(resp))
                     THEN Finished(response_json(resp), "")
                     ELSE Saving(google_image_jobs(response_json(resp).value,
                                                   opts, user_input))
              ELSE extract_message(opts, used_model, http_req, resp,
                                   elapsed_millis)

(* exec_tool before the request                                             *)

\* exec_tool sends the request with this body.
Sent(used_model, http_req, req_body) ==
  [tag |-> "Sent", used_model |-> used_model, http_req |-> http_req,
   req_body |-> req_body]

\* exec_tool with the empty-prompt check ahead of get_http_req.
exec_tool_request_prompt_first(optional_model, opts, user_input, secrets_path_str, full_config) ==
  LET selected == get_http_req(optional_model, secrets_path_str, full_config)
      shaped == get_req_body_obj(opts, selected.value[2], user_input)
  IN IF is_empty(user_input)
       THEN Finished(Err("No prompt was provided"), "")
       ELSE IF is_err(selected)
         THEN Finished(selected, "")
         ELSE IF shaped.tag = "ProcessExit"
           THEN shaped
           ELSE Sent(selected.value[1], selected.value[2], shaped.value)

\* exec_tool up to the sending of the request: the descriptor, the
\* empty-prompt check, the payload.
exec_tool_request(optional_model, opts, user_input, secrets_path_str, full_config) ==
  LET selected == get_http_req(optional_model, secrets_path_str, full_config)
      shaped == get_req_body_obj(opts, selected.value[2], user_input)
  IN IF is_err(selected)
       THEN Finished(selected, "")
       ELSE IF is_empty(user_input)
         THEN Finished(Err("No prompt was provided"), "")
         ELSE IF shaped.tag = "ProcessExit"
           THEN shaped
           ELSE Sent(selected.value[1], selected.value[2], shaped.value)

(* exec_request: the request put on the wire                               *)

\* A request as reqwest sends it: the URL posted to, the headers set by the
\* builder calls, the JSON body.
WireRequest(url, headers, json) ==
  [method |-> "POST", url |-> url, headers |-> headers, json |-> json]

\* exec_request with bearer_auth for every provider.
exec_request_bearer_always(http_req, req_body_obj) ==
  WireRequest(http_req.url,
              insert(insert(Map_new, "content-type", "application/json"),
                     "authorization", "Bearer " \o http_req.api_key),
              req_body_obj)

\* exec_request up to send(): RequestBuilder::json sets the content type,
\* header and bearer_auth add theirs; the Google arm builds a new request on
\* the extended URL.
exec_request(http_req, req_body_obj) ==
  LET req_base == insert(Map_new, "content-type", "application/json")
  IN CASE http_req.provider = "Anthropic" ->
            WireRequest(http_req.url,
                        insert(insert(req_base, "anthropic-version", "2023-06-01"),
                               "x-api-key", http_req.api_key),
                        req_body_obj)
       [] http_req.provider = "Google" ->
            WireRequest(http_req.url \o "/" \o http_req.model
                          \o ":generateContent?key=" \o http_req.api_key,
                        req_base, req_body_obj)
       [] OTHER ->
            WireRequest(http_req.url,
                        insert(req_base, "authorization",
                               "Bearer " \o http_req.api_key),
                        req_body_obj)

(* The file-name probing of the three saving paths                         *)

\* A probe that finds no file, whatever the directory holds.
exists_never(directory, filename) == FALSE

\* Path::new(&filename).exists()
exists(directory, filename) == filename \in DOMAIN directory

first_filename(job, minute) ==
  timestamp_prefix(minute) \o "_" \o job.stem \o "." \o job.ext

\* One turn of the while loop: the next name and counter.
next_probe(job, prefix, counter) ==
  IF job.pre_increment
    THEN [filename |-> prefix \o "_" \o job.stem \o "_" \o to_string(counter + 1)
                         \o "." \o job.ext,
          counter |-> counter + 1]
    ELSE [filename |-> prefix \o "_" \o job.stem \o "_" \o to_string(counter)
                         \o "." \o job.ext,
          counter |-> counter + 1]

(* rename_file (main.rs); paths are strings with / between components      *)

\* Path::parent, as a string: empty for a path of one component.
path_parent(file) ==
  join(SubSeq(split(file, "/"), 1, Len(split(file, "/")) - 1), "/")

\* Path::extension().and_then(to_str).unwrap_or(""): the part of the file
\* name after its last dot; none when there is no dot or only a leading one.
path_extension(file) ==
  LET pieces == split(split(file, "/")[Len(split(file, "/"))], ".")
  IN IF Len(pieces) < 2 \/ (Len(pieces) = 2 /\ pieces[1] = "")
       THEN ""
       ELSE pieces[Len(pieces)]

\* Path::join
path_join(parent, name) == IF parent = "" THEN name ELSE parent \o "/" \o name

\* The loop of rename_file: while the name exists, the counter goes up and
\* the name is formed anew.
RECURSIVE rename_file_loop(_, _, _, _, _, _)
rename_file_loop(directory, new_name, counter, timestamp, description, ext) ==
  IF exists(directory, new_name)
    THEN rename_file_loop(directory,
                          timestamp \o "_" \o description \o "_"
                            \o to_string(counter + 1) \o "." \o ext,
                          counter + 1, timestamp, description, ext)
    ELSE new_name

\* The name rename_file moves the file to.
rename_file(file, timestamp, description, directory) ==
  rename_file_loop(directory,
                   path_join(path_parent(file),
                             timestamp \o "_" \o description \o "."
                               \o path_extension(file)),
                   0, timestamp, description, path_extension(file))

(* State.  call/ret: a library function applied on its own to drawn        *)
(* inputs.  The other variables: one run of the program (exec_with_args).  *)

VARIABLES
  call,         \* the function applied and its arguments
  ret,          \* its results so far, oldest first
  full_config,  \* the configuration map loaded by get_full_config
  opts,         \* the run's ExecOptions
  user_input,   \* the prompt text handed to exec_tool
  tasks,        \* the run's dispatches (exec_tool invocations), by index
  files,        \* the working directory: file name -> what was written
  now,          \* the clock, in minutes (Utc::now formatted to the minute)
  proc,         \* the process: running, or exited with a code
  stdout        \* standard output: the chunks written, each by one print call

call_vars == <<call, ret>>

run_vars == <<full_config, opts, user_input, tasks, files, now, proc, stdout>>

vars == <<call, ret, full_config, opts, user_input, tasks, files, now, proc, stdout>>

\* No function is being applied on its own.
NoCall == call = [fn |-> "none"] /\ ret = <<>>

\* No program run is modelled.
NoRun ==
  /\ full_config = <<>>
  /\ opts = ExecOptions(FALSE, FALSE, None, None)
  /\ user_input = ""
  /\ tasks = <<>>
  /\ files = <<>>
  /\ now = 0
  /\ proc = [state |-> "none"]
  /\ stdout = <<>>

(* Inputs                                                                  *)

SECRETS_PATH == "~/.config/cai/secrets.yaml"

\* The aliases of a provider's table, then inputs that are no alias.
AliasInputs(provider) ==
  {MODEL_MAPPING(provider)[i][1] : i \in DOMAIN MODEL_MAPPING(provider)}
    \cup {"", "xxx", "gpt-4o", "llama3.1", "GPT", "Sonnet", "sonnet "}

KEYED_PROVIDERS ==
  {"Anthropic", "Cerebras", "DeepSeek", "Google", "Groq", "OpenAI", "XAI",
   "Perplexity"}

config_key(provider) ==
  CASE provider = "Anthropic" -> "anthropic_api_key"
    [] provider = "Cerebras" -> "cerebras_api_key"
    [] provider = "DeepSeek" -> "deepseek_api_key"
    [] provider = "Google" -> "google_api_key"
    [] provider = "Groq" -> "groq_api_key"
    [] provider = "OpenAI" -> "openai_api_key"
    [] provider = "XAI" -> "xai_api_key"
    [] provider = "Perplexity" -> "perplexity_api_key"

\* A provider's key is absent from the map, empty, or set.
KeyStates == {"absent", "empty", "set"}

\* The configuration in which each provider's key is in the given state;
\* a set key is "sk-" followed by the provider's name.
ConfigOf(state_of) ==
  LET present == {p \in KEYED_PROVIDERS : state_of[p] # "absent"}
      key_of(k) == CHOOSE p \in present : config_key(p) = k
  IN [k \in {config_key(p) : p \in present} |->
        IF state_of[key_of(k)] = "set" THEN "sk-" \o key_of(k) ELSE ""]

\* Configurations: the three fallback providers' keys vary independently,
\* the other providers' keys together.
SelectConfigs ==
  {ConfigOf([p \in KEYED_PROVIDERS |->
               CASE p = "Groq" -> g
                 [] p = "OpenAI" -> o
                 [] p = "Anthropic" -> a
                 [] OTHER -> rest]) :
     g \in KeyStates, o \in KeyStates, a \in KeyStates, rest \in KeyStates}

SelectModels ==
  {Model(p, m) : p \in Provider,
                 m \in {"", "gpt", "llama3", "s", "claude-haiku-4-5",
                        "tts", "dalle", "gpt-image-1", "grok-image",
                        "grok-2-image"}}

ShapeModelNames ==
  {"gpt-5", "gpt-5-mini", "o1-pro", "o3", "o4-mini", "gpt-4o", "gpt-4.1",
   "gpt-4o-mini-tts", "gpt-image-1", "dall-e-3", "grok-2-image",
   "grok-4-latest", "claude-3-5-haiku-latest", "gemini-2.5-flash",
   "gemini-2.5-flash-image", "llama3.1", ""}

ShapeRequests ==
  {[AiRequest_default EXCEPT !.provider = p, !.model = m, !.max_tokens = t,
                             !.api_key = "sk-" \o p] :
     p \in Provider, m \in ShapeModelNames, t \in {DEFAULT_MAX_TOKENS, 100}}

SCHEMA ==
  Obj(insert(insert(insert(Map_new, "name", Str("requested_json_schema")),
                    "strict", Bool(TRUE)),
             "schema", Obj(insert(Map_new, "type", Str("object")))))

ShapeSubcommands ==
  {None,
   Some(Command("Image", "", <<"a", "cat">>)),
   Some(Command("Openai", "image", <<"a", "cat">>)),
   Some(Command("Openai", "gpt4o", <<"Hello">>)),
   Some(Command("All", "", <<"Hello">>))}

ShapeOptions ==
  {ExecOptions(FALSE, j, s, c) :
     j \in BOOLEAN, s \in {None, Some(SCHEMA)}, c \in ShapeSubcommands}

\* Prompts: plain text, and texts that are JSON documents.
ShapePrompts == {"Hello", "test", "a cat", "{}", "42", "\n{}"}

(* Alias resolution on its own                                             *)

MaxResolve == 2

InitResolve ==
  /\ \E p \in Provider : \E m \in AliasInputs(p) :
       call = [fn |-> "resolve", provider |-> p, model_id |-> m]
  /\ ret = <<>>
  /\ NoRun

\* The provider's resolver, applied to the input and then to its own result.
Resolve ==
  /\ call.fn = "resolve"
  /\ Len(ret) < MaxResolve
  /\ ret' = Append(ret, full_model_id(call.provider,
                                      IF ret = <<>> THEN call.model_id
                                                    ELSE ret[Len(ret)]))
  /\ UNCHANGED <<call, full_config, opts, user_input, tasks, files, now, proc, stdout>>

NextResolve == Resolve

SpecResolve == InitResolve /\ [][NextResolve]_vars

(* Request building and credential fallback on their own                   *)

InitSelect ==
  /\ call \in
       {[fn |-> "get_api_request", full_config |-> c, model |-> m] :
          c \in SelectConfigs, m \in SelectModels}
         \cup {[fn |-> "get_http_req", full_config |-> c, optional_model |-> o] :
                 c \in SelectConfigs,
                 o \in {None} \cup {Some(m) : m \in SelectModels}}
  /\ ret = <<>>
  /\ NoRun

CallGetApiRequest ==
  /\ call.fn = "get_api_request"
  /\ ret = <<>>
  /\ ret' = <<get_api_request(call.full_config, SECRETS_PATH, call.model)>>
  /\ UNCHANGED <<call, full_config, opts, user_input, tasks, files, now, proc, stdout>>

CallGetHttpReq ==
  /\ call.fn = "get_http_req"
  /\ ret = <<>>
  /\ ret' = <<get_http_req(call.optional_model, SECRETS_PATH, call.full_config)>>
  /\ UNCHANGED <<call, full_config, opts, user_input, tasks, files, now, proc, stdout>>

NextSelect == CallGetApiRequest \/ CallGetHttpReq

SpecSelect == InitSelect /\ [][NextSelect]_vars

(* The formatting helpers on their own                                     *)

\* The words a prompt is made of (the empty word among them, so that
\* separators meet and prompts start or end with one), and what stands
\* between two words.
SlugWords == {"", "the", "then", "x9", "Hello", "watercolour"}

SlugSeparators == {" ", ", ", "-"}

SlugPrompts ==
  {join(<<w1, w2, w3, w4>>, sep) :
     w1 \in SlugWords, w2 \in SlugWords, w3 \in SlugWords, w4 \in SlugWords,
     sep \in SlugSeparators}

\* Elapsed times around the change of unit, around halves of a tenth, and
\* those of the unit test.
FormatMillis ==
  {0, 1, 999, 5000, 15000, 15500, 15999, 60000, 60123, 65432, 120000}
    \cup (9990..10310) \cup (10740..10760) \cup (32040..32060)
    \cup (64940..64960)

InitFormat ==
  /\ call \in {[fn |-> "prompt_to_short_name", prompt |-> p] :
                 p \in SlugPrompts}
              \cup {[fn |-> "format_elapsed_time", elapsed_millis |-> ms] :
                      ms \in FormatMillis}
  /\ ret = <<>>
  /\ NoRun

CallPromptToShortName ==
  /\ call.fn = "prompt_to_short_name"
  /\ ret = <<>>
  /\ ret' = <<prompt_to_short_name(call.prompt)>>
  /\ UNCHANGED <<call, full_config, opts, user_input, tasks, files, now, proc, stdout>>

CallFormatElapsedTime ==
  /\ call.fn = "format_elapsed_time"
  /\ ret = <<>>
  /\ ret' = <<format_elapsed_time(call.elapsed_millis)>>
  /\ UNCHANGED <<call, full_config, opts, user_input, tasks, files, now, proc, stdout>>

NextFormat == CallPromptToShortName \/ CallFormatElapsedTime

SpecFormat == InitFormat /\ [][NextFormat]_vars

(* Payload shaping on its own                                              *)

InitShape ==
  /\ call \in {[fn |-> "get_req_body_obj", opts |-> o, http_req |-> r,
                user_input |-> u] :
                 o \in ShapeOptions, r \in ShapeRequests, u \in ShapePrompts}
  /\ ret = <<>>
  /\ NoRun

CallGetReqBodyObj ==
  /\ call.fn = "get_req_body_obj"
  /\ ret = <<>>
  /\ ret' = <<get_req_body_obj(call.opts, call.http_req, call.user_input)>>
  /\ UNCHANGED <<call, full_config, opts, user_input, tasks, files, now, proc, stdout>>

NextShape == CallGetReqBodyObj

SpecShape == InitShape /\ [][NextShape]_vars

(* The inputs of a run: command line, configuration, directory, replies    *)

\* Command lines: the command, and the model its arm of exec_with_args
\* hands to submit_prompt.
RunCommands ==
  {[command |-> None, model |-> None],
   [command |-> Some(Command("Openai", "gpt-5-mini", <<>>)),
    model |-> Some(Model("OpenAI", "gpt-5-mini"))],
   [command |-> Some(Command("ClaudeSonnet", "", <<>>)),
    model |-> Some(Model("Anthropic", "claude-sonnet-4-5"))],
   [command |-> Some(Command("Gemini", "", <<>>)),
    model |-> Some(Model("Google", "gemini-2.5-flash"))],
   [command |-> Some(Command("Ollama", "llama3", <<>>)),
    model |-> Some(Model("Ollama", "llama3"))],
   [command |-> Some(Command("Say", "", <<>>)),
    model |-> Some(Model("OpenAI", "gpt-4o-mini-tts"))],
   [command |-> Some(Command("Image", "", <<>>)),
    model |-> Some(Model("OpenAI", "gpt-5"))],
   [command |-> Some(Command("GoogleImage", "", <<>>)),
    model |-> Some(Model("Google", "gemini-2.5-flash-image"))]}

\* The words of the prompt on the command line.
RunPrompts == {<<>>, <<"Hello">>, <<"a", "cat", "in", "the", "hat">>}

\* Configurations: no key, every key, the key of Anthropic alone.
RunConfigs ==
  {ConfigOf([p \in KEYED_PROVIDERS |-> "absent"]),
   ConfigOf([p \in KEYED_PROVIDERS |-> "set"]),
   ConfigOf([p \in KEYED_PROVIDERS |->
               IF p = "Anthropic" THEN "set" ELSE "empty"])}

\* --raw, --json
RunFlags == {<<FALSE, FALSE>>, <<FALSE, TRUE>>, <<TRUE, FALSE>>}

\* The numbered names that may exist before the run go up to this number.
MaxExisting == 2

\* A file that was in the directory before the run.
OLD_FILE == [by |-> 0, bytes |-> "old", replaced |-> FALSE]

\* The names a save of this command line may probe at the first minute.
ProbedNames(command, prompt) ==
  LET stem == IF command.cmd = "Say"
                THEN "output"
                ELSE prompt_to_short_name(join(prompt, " "))
      ext == IF command.cmd = "Say" THEN "mp3" ELSE "png"
  IN {timestamp_prefix(0) \o "_" \o stem \o "." \o ext}
       \cup {timestamp_prefix(0) \o "_" \o stem \o "_" \o to_string(n)
               \o "." \o ext : n \in 1..MaxExisting}

\* The directories a run may start in.
RunDirectories(command, prompt) ==
  IF is_some(command) /\ command.value.cmd \in {"Say", "Image", "GoogleImage"}
    THEN {[f \in names |-> OLD_FILE] :
            names \in SUBSET ProbedNames(command.value, prompt)}
    ELSE {<<>>}

CHAT_REPLY ==
  Obj(insert(Map_new, "choices",
      Arr(<<Obj(insert(Map_new, "message",
                Obj(insert(Map_new, "content", Str("Hi")))))>>)))

\* A Perplexity reply: a choice and one search result with a date.
SEARCH_REPLY ==
  Obj(insert(insert(Map_new, "choices",
      Arr(<<Obj(insert(Map_new, "message",
                Obj(insert(Map_new, "content", Str("Hi")))))>>)),
      "search_results",
      Arr(<<Obj(insert(insert(insert(Map_new, "title", Str("T")),
                              "url", Str("https://t")),
                       "date", Str("2025-01-01")))>>)))

ANTHROPIC_REPLY ==
  Obj(insert(Map_new, "content", Arr(<<Obj(insert(Map_new, "text", Str("Hi")))>>)))

GOOGLE_REPLY ==
  Obj(insert(Map_new, "candidates",
      Arr(<<Obj(insert(Map_new, "content",
                Obj(insert(Map_new, "parts",
                    Arr(<<Obj(insert(Map_new, "text", Str("Hi")))>>)))))>>)))

\* Two images; the third entry does not decode.
OPENAI_IMAGE_REPLY ==
  Obj(insert(Map_new, "data",
      Arr(<<Obj(insert(Map_new, "b64_json", Str("aGk="))),
            Obj(insert(Map_new, "b64_json", Str("aG8="))),
            Obj(insert(Map_new, "b64_json", Str("a")))>>)))

InlineData(data) ==
  Obj(insert(Map_new, "inlineData", Obj(insert(Map_new, "data", Str(data)))))

GoogleImageReply(parts) ==
  Obj(insert(Map_new, "candidates",
      Arr(<<Obj(insert(Map_new, "content",
                Obj(insert(Map_new, "parts", Arr(parts)))))>>)))

GOOGLE_IMAGE_REPLY == GoogleImageReply(<<InlineData("aGk="), InlineData("aG8=")>>)

\* The second part's inlineData has no "data".
GOOGLE_IMAGE_REPLY_NO_DATA ==
  GoogleImageReply(
    <<InlineData("aGk="),
      Obj(insert(Map_new, "inlineData",
                 Obj(insert(Map_new, "mimeType", Str("image/png")))))>>)

\* A Google reply whose first part holds a number where the text belongs.
GOOGLE_REPLY_NO_TEXT ==
  Obj(insert(Map_new, "candidates",
      Arr(<<Obj(insert(Map_new, "content",
                Obj(insert(Map_new, "parts",
                    Arr(<<Obj(insert(Map_new, "text", Num(42)))>>)))))>>)))

INVALID_KEY_REPLY ==
  Obj(insert(Map_new, "error",
             Obj(insert(Map_new, "message", Str("invalid_api_key")))))

\* What exec_request may come back with.
Responses ==
  {TransportError,
   HttpResponse(TRUE, JsonBody(CHAT_REPLY)),
   HttpResponse(TRUE, JsonBody(SEARCH_REPLY)),
   HttpResponse(TRUE, JsonBody(Obj(insert(Map_new, "choices", Arr(<<>>))))),
   HttpResponse(TRUE, JsonBody(ANTHROPIC_REPLY)),
   HttpResponse(TRUE, JsonBody(Obj(insert(Map_new, "content", Arr(<<>>))))),
   HttpResponse(TRUE, JsonBody(GOOGLE_REPLY)),
   HttpResponse(TRUE, JsonBody(GOOGLE_REPLY_NO_TEXT)),
   HttpResponse(TRUE, JsonBody(OPENAI_IMAGE_REPLY)),
   HttpResponse(TRUE, JsonBody(GOOGLE_IMAGE_REPLY)),
   HttpResponse(TRUE, JsonBody(GOOGLE_IMAGE_REPLY_NO_DATA)),
   HttpResponse(TRUE, BytesBody("ID3")),
   HttpResponse(FALSE, JsonBody(INVALID_KEY_REPLY)),
   HttpResponse(FALSE, BytesBody("<html>502 Bad Gateway</html>"))}

\* Elapsed times, in milliseconds.
ElapsedMillis == {250, 12340}

(* One run of the program: submit_prompt, or the broadcast of              *)
(* Commands::All (main.rs)                                                 *)

\* The dispatches of Commands::All, in spawn order.
ALL_MODELS ==
  <<Model("Anthropic", "claude-sonnet-4-5"),
    Model("Cerebras", "gpt-oss-120b"),
    Model("Google", "gemini-2.5-flash"),
    Model("Groq", "openai/gpt-oss-20b"),
    Model("Llamafile", ""),
    Model("Ollama", "llama3"),
    Model("OpenAI", "gpt-5-mini"),
    Model("XAI", "grok-3-mini-latest"),
    Model("Perplexity", "sonar")>>

\* A dispatch: one exec_tool invocation and where it stands.
\*   posts: the requests sent by exec_request, oldest first
\*   pc: "unspawned", "start", "awaiting" (the POST is sent), "print", "save",
\*       "probe", "write", "returned", "panicked"
Task(optional_model, pc) ==
  [model |-> optional_model, pc |-> pc, used_model |-> "",
   http_req |-> AiRequest_default, req_body |-> Null, posts |-> <<>>,
   resp |-> None, out |-> <<>>, result |-> None, msg |-> "", jobs |-> <<>>, prefix |-> "", filename |-> "",
   counter |-> 0, saved |-> <<>>]

Running(mode) == [state |-> "running", mode |-> mode]

Exited(mode, code, stderr) ==
  [state |-> "exited", mode |-> mode, code |-> code, stderr |-> stderr]

finished(task) == task.pc \in {"returned", "panicked"}

\* exec_tool calling exec_request again while no response has come.
before_request_or_retrying(task) == task.pc \in {"start", "awaiting"}

\* exec_tool has one call of exec_request, in no loop: it is reached from
\* the entry of exec_tool alone.
before_request(task) == task.pc = "start"

\* exec_tool is entered and runs up to the POST of exec_request, to its
\* early return, or to the exit of the process in get_req_body_obj.
ExecToolSend(t) ==
  /\ proc.state = "running"
  /\ before_request(tasks[t])
  /\ \E outcome \in {exec_tool_request(tasks[t].model, opts, user_input,
                                        SECRETS_PATH, full_config)} :
        CASE outcome.tag = "Finished" ->
               /\ tasks' = [tasks EXCEPT ![t].pc = "returned",
                                         ![t].result = Some(outcome.result)]
               /\ UNCHANGED proc
          [] outcome.tag = "ProcessExit" ->
               /\ proc' = Exited(proc.mode, outcome.code, outcome.stderr)
               /\ UNCHANGED tasks
          [] outcome.tag = "Sent" ->
               /\ tasks' = [tasks EXCEPT ![t].pc = "awaiting",
                                         ![t].used_model = outcome.used_model,
                                         ![t].http_req = outcome.http_req,
                                         ![t].req_body = outcome.req_body,
                                         ![t].posts =
                                           Append(@, exec_request(outcome.http_req,
                                                                  outcome.req_body))]
               /\ UNCHANGED proc
  /\ UNCHANGED <<call, ret, full_config, opts, user_input, files, now, stdout>>

\* exec_tool from the return of exec_request to its own return, to its
\* panic, or to the start of its file saving.  A panic ends a run of
\* submit_prompt (exit code 101); in a spawned task it ends the task alone.
ExecToolReceive(t, resp, elapsed_millis) ==
  /\ proc.state = "running"
  /\ tasks[t].pc = "awaiting"
  /\ \E outcome \in {handle_response(opts, tasks[t].http_req,
                                      tasks[t].used_model, user_input, resp,
                                      elapsed_millis)} :
        CASE outcome.tag = "Finished" ->
               /\ tasks' = [tasks EXCEPT ![t].pc = "returned",
                                         ![t].resp = Some(resp),
                                         ![t].result = Some(outcome.result),
                                         ![t].msg = outcome.msg]
               /\ UNCHANGED proc
          [] outcome.tag = "Panicked" ->
               /\ tasks' = [tasks EXCEPT ![t].pc = "panicked",
                                         ![t].resp = Some(resp)]
               /\ proc' = IF proc.mode = "single"
                            THEN Exited(proc.mode, 101, outcome.message)
                            ELSE proc
          [] outcome.tag = "Printing" ->
               /\ tasks' = [tasks EXCEPT ![t].pc = "print",
                                         ![t].resp = Some(resp),
                                         ![t].msg = outcome.msg,
                                         ![t].out = outcome.chunks]
               /\ UNCHANGED proc
          [] outcome.tag = "Saving" ->
               /\ tasks' = [tasks EXCEPT
                              ![t].pc = IF outcome.jobs = <<>> THEN "returned"
                                                               ELSE "save",
                              ![t].resp = Some(resp),
                              ![t].result = IF outcome.jobs = <<>>
                                              THEN Some(Ok("unit"))
                                              ELSE None,
                              ![t].jobs = outcome.jobs]
               /\ UNCHANGED proc
  /\ UNCHANGED <<call, ret, full_config, opts, user_input, files, now, stdout>>

\* One print call of exec_tool writes its chunk to standard output; after
\* the last one exec_tool returns Ok.
PrintChunk(t) ==
  /\ proc.state = "running"
  /\ tasks[t].pc = "print"
  /\ stdout' = Append(stdout, [by |-> t, text |-> Head(tasks[t].out)])
  /\ tasks' = [tasks EXCEPT
                 ![t].out = Tail(@),
                 ![t].pc = IF Tail(tasks[t].out) = <<>> THEN "returned"
                                                        ELSE "print",
                 ![t].result = IF Tail(tasks[t].out) = <<>>
                                 THEN Some(Ok("unit")) ELSE None]
  /\ UNCHANGED <<call, ret, full_config, opts, user_input, files, now, proc>>

\* The loop over the images comes to its next item: the clock is read and
\* the first file name formed, or the indexing of the item panics.
StartSave(t) ==
  /\ proc.state = "running"
  /\ tasks[t].pc = "save"
  /\ LET job == Head(tasks[t].jobs)
     IN IF job.kind = "panic"
          THEN /\ tasks' = [tasks EXCEPT ![t].pc = "panicked"]
               /\ proc' = IF proc.mode = "single"
                            THEN Exited(proc.mode, 101, job.message)
                            ELSE proc
          ELSE /\ tasks' = [tasks EXCEPT
                              ![t].pc = "probe",
                              ![t].prefix = timestamp_prefix(now),
                              ![t].filename = first_filename(job, now),
                              ![t].counter = 1]
               /\ UNCHANGED proc
  /\ UNCHANGED <<call, ret, full_config, opts, user_input, files, now, stdout>>

\* One test of the while loop: the name exists and the next one is formed,
\* or it does not and the loop is left.
Probe(t) ==
  /\ proc.state = "running"
  /\ tasks[t].pc = "probe"
  /\ IF exists(files, tasks[t].filename)
       THEN LET next == next_probe(Head(tasks[t].jobs), tasks[t].prefix,
                                   tasks[t].counter)
            IN tasks' = [tasks EXCEPT ![t].filename = next.filename,
                                      ![t].counter = next.counter]
       ELSE tasks' = [tasks EXCEPT ![t].pc = "write"]
  /\ UNCHANGED <<call, ret, full_config, opts, user_input, files, now, proc, stdout>>

\* std::fs::write creates the file or replaces its content, or fails.  Then
\* the next image is saved, or exec_tool returns.
WriteFile(t, written) ==
  /\ proc.state = "running"
  /\ tasks[t].pc = "write"
  /\ LET job == Head(tasks[t].jobs)
         name == tasks[t].filename
         content == [by |-> t, bytes |-> job.bytes,
                     replaced |-> exists(files, name)]
         rest == Tail(tasks[t].jobs)
     IN /\ files' = IF written
                      THEN [f \in (DOMAIN files) \cup {name} |->
                              IF f = name THEN content ELSE files[f]]
                      ELSE files
        /\ tasks' =
             [tasks EXCEPT
                ![t].saved = IF written THEN Append(@, name) ELSE @,
                ![t].jobs = rest,
                ![t].pc = IF (~written /\ job.fatal) \/ rest = <<>>
                            THEN "returned" ELSE "save",
                ![t].result =
                  IF ~written /\ job.fatal
                    THEN Some(Err("No space left on device (os error 28)"))
                    ELSE IF rest = <<>> THEN Some(Ok("unit")) ELSE None]
  /\ UNCHANGED <<call, ret, full_config, opts, user_input, now, proc, stdout>>

MaxMinute == 1

\* A minute passes.
Tick ==
  /\ proc.state = "running"
  /\ now < MaxMinute
  /\ now' = now + 1
  /\ UNCHANGED <<call, ret, full_config, opts, user_input, tasks, files, proc, stdout>>

\* submit_prompt after exec_tool: an error is printed with the model and
\* the process exits with 1; otherwise main returns.
SubmitPromptReturn ==
  /\ proc.state = "running"
  /\ proc.mode = "single"
  /\ tasks[1].pc = "returned"
  /\ proc' =
       IF is_err(tasks[1].result.value)
         THEN Exited("single", 1,
                     "<bold>:brain: "
                       \o (IF is_some(tasks[1].model)
                             THEN Model_fmt(tasks[1].model.value) ELSE "")
                       \o "</bold><red>\nERROR:\n"
                       \o tasks[1].result.value.error \o "</red>\n")
         ELSE Exited("single", 0, "")
  /\ UNCHANGED <<call, ret, full_config, opts, user_input, tasks, files, now, stdout>>

\* Commands::All: tokio::spawn of the next model's dispatch.
Spawn(t) ==
  /\ proc.state = "running"
  /\ proc.mode = "all"
  /\ tasks[t].pc = "unspawned"
  /\ \A u \in DOMAIN tasks : u < t => tasks[u].pc # "unspawned"
  /\ tasks' = [tasks EXCEPT ![t].pc = "start"]
  /\ UNCHANGED <<call, ret, full_config, opts, user_input, files, now, proc, stdout>>

\* Commands::All: join_all(handles) completes once every task has ended;
\* then main returns.
JoinAll ==
  /\ proc.state = "running"
  /\ proc.mode = "all"
  /\ \A t \in DOMAIN tasks : finished(tasks[t])
  /\ proc' = Exited("all", 0, "")
  /\ UNCHANGED <<call, ret, full_config, opts, user_input, tasks, files, now, stdout>>

(* A run of one command: exec_with_args to submit_prompt                   *)

\* exec_with_args on a command line: the options are built and the arm of
\* the command calls submit_prompt.
RunOf(command_lines, prompts, flag_pairs, configs) ==
  /\ NoCall
  /\ \E cl \in command_lines, prompt \in prompts, flags \in flag_pairs :
       LET command == IF is_some(cl.command)
                        THEN Some([cl.command.value EXCEPT !.prompt = prompt])
                        ELSE None
       IN /\ opts = ExecOptions(flags[1], flags[2], None, command)
          /\ user_input = join(prompt, " ")
          /\ tasks = <<Task(cl.model, "start")>>
          /\ files \in RunDirectories(command, prompt)
  /\ full_config \in configs
  /\ now = 0
  /\ proc = Running("single")
  /\ stdout = <<>>

Init == RunOf(RunCommands, RunPrompts, RunFlags, RunConfigs)

Next ==
  \/ ExecToolSend(1)
  \/ \E resp \in Responses, elapsed_millis \in ElapsedMillis :
       ExecToolReceive(1, resp, elapsed_millis)
  \/ PrintChunk(1)
  \/ StartSave(1)
  \/ Probe(1)
  \/ \E written \in BOOLEAN : WriteFile(1, written)
  \/ Tick
  \/ SubmitPromptReturn

Spec == Init /\ [][Next]_vars

(* A run of a command that saves files, with every key configured          *)

SavingCommands ==
  {cl \in RunCommands :
     is_some(cl.command)
       /\ cl.command.value.cmd \in {"Say", "Image", "GoogleImage"}}

InitSave ==
  RunOf(SavingCommands, RunPrompts \ {<<>>}, {<<FALSE, FALSE>>},
        {ConfigOf([p \in KEYED_PROVIDERS |-> "set"])})

\* The steps of such a run: no text reply is printed in it.
NextSave ==
  \/ ExecToolSend(1)
  \/ \E resp \in Responses, elapsed_millis \in ElapsedMillis :
       ExecToolReceive(1, resp, elapsed_millis)
  \/ StartSave(1)
  \/ Probe(1)
  \/ \E written \in BOOLEAN : WriteFile(1, written)
  \/ Tick
  \/ SubmitPromptReturn

\* The program runs on while it can: its loops and calls are not suspended
\* for ever.
SpecSave == InitSave /\ [][NextSave]_vars /\ WF_vars(NextSave)

(* A run of 'all': the broadcast of Commands::All                          *)

\* The dispatches of a broadcast that are followed: this many consecutive
\* entries of ALL_MODELS.
MaxDispatch == 2

AllPrompts == {<<"Hello">>, <<"{}">>}

AllConfigs ==
  {ConfigOf([p \in KEYED_PROVIDERS |-> "absent"]),
   ConfigOf([p \in KEYED_PROVIDERS |-> "set"])}

\* Replies to a dispatch of the broadcast.
AllResponses ==
  {TransportError,
   HttpResponse(TRUE, JsonBody(CHAT_REPLY)),
   HttpResponse(TRUE, JsonBody(Obj(insert(Map_new, "choices", Arr(<<>>))))),
   HttpResponse(TRUE, JsonBody(ANTHROPIC_REPLY)),
   HttpResponse(TRUE, JsonBody(GOOGLE_REPLY)),
   HttpResponse(FALSE, JsonBody(INVALID_KEY_REPLY))}

InitAll ==
  /\ NoCall
  /\ \E prompt \in AllPrompts, is_json \in BOOLEAN :
       /\ opts = ExecOptions(FALSE, is_json, None,
                             Some(Command("All", "", prompt)))
       /\ user_input = "" \o "\n" \o join(prompt, " ")
  /\ \E first \in 1..(Len(ALL_MODELS) - MaxDispatch + 1) :
       tasks = [t \in 1..MaxDispatch |->
                  Task(Some(ALL_MODELS[first + t - 1]), "unspawned")]
  /\ full_config \in AllConfigs
  /\ files = <<>>
  /\ now = 0
  /\ proc = Running("all")
  /\ stdout = <<>>

NextAll ==
  \/ \E t \in DOMAIN tasks : Spawn(t)
  \/ \E t \in DOMAIN tasks : ExecToolSend(t)
  \/ \E t \in DOMAIN tasks, resp \in AllResponses :
       ExecToolReceive(t, resp, 250)
  \/ \E t \in DOMAIN tasks : PrintChunk(t)
  \/ JoinAll

SpecAll == InitAll /\ [][NextAll]_vars

(* Two processes of one saving command in one directory                    *)

\* Replies to the two requests: the 2xx replies that carry data to save.
RaceResponses ==
  {HttpResponse(TRUE, JsonBody(OPENAI_IMAGE_REPLY)),
   HttpResponse(TRUE, JsonBody(GOOGLE_IMAGE_REPLY)),
   HttpResponse(TRUE, BytesBody("ID3"))}

\* The same command line is started twice in the same directory; each
\* process is one dispatch, and the two share the files.
InitRace ==
  /\ NoCall
  /\ \E cl \in SavingCommands :
       LET command == [cl.command.value EXCEPT !.prompt = <<"a", "cat">>]
       IN /\ opts = ExecOptions(FALSE, FALSE, None, Some(command))
          /\ user_input = "a cat"
          /\ tasks = <<Task(cl.model, "start"), Task(cl.model, "start")>>
          /\ files \in {<<>>} \cup {[f \in {n} |-> OLD_FILE] :
                                     n \in ProbedNames(command, <<"a", "cat">>)}
  /\ full_config = ConfigOf([p \in KEYED_PROVIDERS |-> "set"])
  /\ now = 0
  /\ proc = Running("processes")
  /\ stdout = <<>>

NextRace ==
  \/ \E t \in DOMAIN tasks : ExecToolSend(t)
  \/ \E t \in DOMAIN tasks, resp \in RaceResponses :
       ExecToolReceive(t, resp, 250)
  \/ \E t \in DOMAIN tasks : StartSave(t)
  \/ \E t \in DOMAIN tasks : Probe(t)
  \/ \E t \in DOMAIN tasks, written \in BOOLEAN : WriteFile(t, written)
  \/ Tick

SpecRace == InitRace /\ [][NextRace]_vars

(* rename_file on its own                                                  *)

RenameFiles == {"a.pdf", "docs/a.pdf", "docs/notes", "in/2024/scan.png"}

RenameDescriptions == {"invoice", "cat"}

RENAME_TIMESTAMP == "2025-08-19t2041"

\* The names that may exist before the call: the first target, and the
\* numbered names in the file's directory and in the working directory.
RenameExisting(file, description) ==
  LET stem == RENAME_TIMESTAMP \o "_" \o description
      numbered(n) == stem \o "_" \o to_string(n) \o "." \o path_extension(file)
  IN {path_join(path_parent(file), stem \o "." \o path_extension(file))}
       \cup {path_join(path_parent(file), numbered(n)) : n \in 1..MaxExisting}
       \cup {numbered(n) : n \in 1..MaxExisting}

InitRename ==
  /\ \E file \in RenameFiles, description \in RenameDescriptions :
       \E names \in SUBSET RenameExisting(file, description) :
         /\ call = [fn |-> "rename_file", file |-> file,
                    timestamp |-> RENAME_TIMESTAMP, description |-> description,
                    directory |-> [f \in names \cup {file} |-> OLD_FILE]]
         /\ files = call.directory
  /\ ret = <<>>
  /\ full_config = <<>>
  /\ opts = ExecOptions(FALSE, FALSE, None, None)
  /\ user_input = ""
  /\ tasks = <<>>
  /\ now = 0
  /\ proc = [state |-> "none"]
  /\ stdout = <<>>

\* rename_file: the name is chosen and std::fs::rename moves the file.
CallRenameFile ==
  /\ call.fn = "rename_file"
  /\ ret = <<>>
  /\ \E new_name \in {rename_file(call.file, call.timestamp, call.description,
                                  files)} :
       /\ ret' = <<new_name>>
       /\ files' = [f \in ((DOMAIN files) \ {call.file}) \cup {new_name} |->
                      IF f = new_name
                        THEN [files[call.file] EXCEPT
                                !.replaced = exists(files, new_name)]
                        ELSE files[f]]
  /\ UNCHANGED <<call, full_config, opts, user_input, tasks, now, proc, stdout>>

NextRename == CallRenameFile

SpecRename == InitRename /\ [][NextRename]_vars

(* Claims                                                                  *)

\* The configuration holds a non-empty value under the key.
has_key(config, key) == key \in DOMAIN config /\ config[key] # ""

\* The lone result of the function applied on its own.
result == ret[1]

\* A request for JSON mode or for a JSON schema on a provider outside the
\* sets the claim names.
C1_Gated ==
  /\ call.fn = "get_req_body_obj"
  /\ \/ (call.opts.is_json
           /\ call.http_req.provider \notin {"OpenAI", "Groq", "Ollama"})
     \/ (is_some(call.opts.json_schema)
           /\ call.http_req.provider \notin {"OpenAI", "Ollama"})

\* C1 (as claimed): get_req_body_obj with is_json for a provider outside
\* {OpenAI, Groq, Ollama}, or with a JSON schema for a provider outside
\* {OpenAI, Ollama}, never returns a payload and never ends the process: it
\* hands an UnsupportedCapability error back to its caller.
C1_UnsupportedCapabilityReturned ==
  (C1_Gated /\ ret # <<>>) => result.tag \notin {"Return", "ProcessExit"}

\* C2 (as claimed): in a broadcast no dispatch's failure keeps a sibling
\* from running to completion, and the process exits only after every
\* spawned dispatch has finished: once the process has exited, every
\* dispatch has returned or ended.
C2_ExitOnlyAfterAllFinished ==
  (proc.mode = "all" /\ proc.state = "exited") =>
    \A t \in DOMAIN tasks : finished(tasks[t])

C4_NonEmptyKey ==
  /\ (call.fn = "get_api_request" /\ ret # <<>>) =>
       LET provider == call.model.provider
       IN /\ is_ok(result) => result.value.api_key # ""
          /\ (provider \in KEYED_PROVIDERS
                /\ ~has_key(call.full_config, config_key(provider)))
               => result = Err(get_key_setup_msg(SECRETS_PATH))
          /\ provider \in {"Llamafile", "Ollama"}
               => is_ok(result) /\ result.value.api_key = "DUMMY_KEY"
  /\ (call.fn = "get_http_req" /\ ret # <<>> /\ is_ok(result)) =>
       result.value[2].api_key # ""

\* C4 witness: a keyed provider whose key is present but empty is refused.
C4_Witness ==
  /\ call.fn = "get_api_request"
  /\ call.model.provider = "OpenAI"
  /\ "openai_api_key" \in DOMAIN call.full_config
  /\ call.full_config["openai_api_key"] = ""
  /\ ret # <<>>
  /\ is_err(result)

\* The run's dispatch has no usable key: its model's provider is keyed and
\* the key is missing or empty, or no model is given and none of the three
\* fallback keys is usable.
C5_KeyMissing(task) ==
  IF is_some(task.model)
    THEN /\ task.model.value.provider \in KEYED_PROVIDERS
         /\ ~has_key(full_config, config_key(task.model.value.provider))
    ELSE /\ ~has_key(full_config, "groq_api_key")
         /\ ~has_key(full_config, "openai_api_key")
         /\ ~has_key(full_config, "anthropic_api_key")

\* C5: in exec_tool the empty prompt is looked at after the credentials.
\* With an empty prompt no body is built and no request is sent, and
\* exec_tool returns an error: the credential-setup message when the key is
\* missing, 'No prompt was provided' when the key is usable.
C5_CredentialsBeforeEmptyPrompt ==
  (proc.state # "none" /\ user_input = "") =>
    \A t \in DOMAIN tasks :
      /\ tasks[t].posts = <<>>
      /\ tasks[t].req_body = Null
      /\ tasks[t].pc \in {"unspawned", "start", "returned"}
      /\ tasks[t].pc = "returned" =>
           IF C5_KeyMissing(tasks[t])
             THEN tasks[t].result = Some(Err(get_key_setup_msg(SECRETS_PATH)))
             ELSE tasks[t].result = Some(Err("No prompt was provided"))

\* C5 witness: an empty prompt and a missing key, answered with the
\* credential-setup message.
C5_Witness ==
  /\ proc.state # "none"
  /\ user_input = ""
  /\ tasks[1].pc = "returned"
  /\ C5_KeyMissing(tasks[1])
  /\ tasks[1].result = Some(Err(get_key_setup_msg(SECRETS_PATH)))
  /\ tasks[1].posts = <<>>

\* The token-budget field of the claim: max_completion_tokens exactly for
\* the names starting with o1, o3, o4 or gpt-5, max_tokens otherwise.
C6_ExactlyOneField ==
  LET model == call.http_req.model
      reasoning ==
        \/ starts_with(model, "o1")
        \/ starts_with(model, "o3")
        \/ starts_with(model, "o4")
        \/ starts_with(model, "gpt-5")
  IN /\ result.tag = "Return"
     /\ contains_key(result.value, "max_completion_tokens") <=> reasoning
     /\ contains_key(result.value, "max_tokens") <=> ~reasoning

\* C6 (as claimed): for OpenAI, for every model name, prompt and options,
\* the body holds exactly one of max_completion_tokens and max_tokens.
C6_TokenFieldAlways ==
  (call.fn = "get_req_body_obj" /\ call.http_req.provider = "OpenAI"
     /\ ret # <<>>)
    => C6_ExactlyOneField

\* The default chat shape applies: no earlier shape rule matches.
C6_ChatShape ==
  /\ is_err(serde_json_from_str(call.user_input))
  /\ ~contains(call.http_req.model, "-tts")
  /\ ~is_image_generation(call.opts)
  /\ ~starts_with(call.http_req.model, "gpt-image")
  /\ ~starts_with(call.http_req.model, "dall-e")

\* C6 (amended): for OpenAI, when the default chat shape applies (the prompt
\* is not valid JSON, the model name does not contain -tts, and the request
\* is no image generation by subcommand or by a gpt-image or dall-e name),
\* the body holds exactly one of the two fields, max_completion_tokens
\* exactly for the names starting with o1, o3, o4 or gpt-5.
C6_TokenFieldInChatShape ==
  (call.fn = "get_req_body_obj" /\ call.http_req.provider = "OpenAI"
     /\ ret # <<>> /\ C6_ChatShape)
    => C6_ExactlyOneField

\* C6 witness: an OpenAI chat body for gpt-5-mini with max_completion_tokens.
C6_Witness ==
  /\ call.fn = "get_req_body_obj"
  /\ call.http_req.provider = "OpenAI"
  /\ call.http_req.model = "gpt-5-mini"
  /\ call.user_input = "Hello"
  /\ ret # <<>>
  /\ result.tag = "Return"
  /\ contains_key(result.value, "max_completion_tokens")
  /\ contains_key(result.value, "messages")

\* The dispatch received a 2xx reply that exec_tool reads as a chat
\* completion with an empty choices array, or as an Anthropic message with
\* an empty content array.
C7_EmptyArrayReply(task) ==
  /\ is_some(task.resp)
  /\ task.resp.value.tag = "Response"
  /\ task.resp.value.status_success
  /\ task.resp.value.body.kind = "json"
  /\ \/ /\ task.http_req.provider = "Anthropic"
        /\ index_key(task.resp.value.body.value, "content") = Arr(<<>>)
     \/ /\ task.http_req.provider \notin {"Anthropic", "Google", "XAI"}
        /\ ~contains(task.http_req.model, "-tts")
        /\ ~starts_with(task.http_req.model, "dall-e")
        /\ ~starts_with(task.http_req.model, "gpt-image")
        /\ ~is_image_generation(opts)
        /\ index_key(task.resp.value.body.value, "choices") = Arr(<<>>)

\* C7 (as claimed): on a 2xx reply with an empty choices array, or an empty
\* content array for Anthropic, exec_tool returns an error to its caller and
\* does not panic.
C7_EmptyArrayReturnsError ==
  \A t \in DOMAIN tasks :
    C7_EmptyArrayReply(tasks[t]) =>
      /\ tasks[t].pc = "returned"
      /\ is_err(tasks[t].result.value)

\* The text of a reply's body as the provider sent it.
C8_UpstreamBody(resp) ==
  IF resp.body.kind = "json"
    THEN to_string_pretty(resp.body.value)
    ELSE resp.body.text

\* C8 (as claimed): for every provider and model, a non-success status makes
\* exec_tool return an error whose message contains the upstream body,
\* whatever the body is.
C8_UpstreamBodyPreserved ==
  \A t \in DOMAIN tasks :
    (/\ is_some(tasks[t].resp)
     /\ tasks[t].resp.value.tag = "Response"
     /\ ~tasks[t].resp.value.status_success)
      => /\ tasks[t].pc = "returned"
         /\ is_err(tasks[t].result.value)
         /\ contains(tasks[t].result.value.error,
                     C8_UpstreamBody(tasks[t].resp.value))

\* What holds of the saving at every moment: the name the loop has settled
\* on does not exist; the loop has turned at most once per file of the
\* directory; the names a dispatch has written are all different; no write
\* has replaced a file.
C9_SaveInvariant ==
  /\ \A t \in DOMAIN tasks :
       /\ tasks[t].pc = "write" => tasks[t].filename \notin DOMAIN files
       /\ tasks[t].pc \in {"probe", "write"} =>
            tasks[t].counter <= Cardinality(DOMAIN files) + 1
       /\ \A i, j \in DOMAIN tasks[t].saved :
            i # j => tasks[t].saved[i] # tasks[t].saved[j]
       /\ \A i \in DOMAIN tasks[t].saved : tasks[t].saved[i] \in DOMAIN files
  /\ \A f \in DOMAIN files : ~files[f].replaced

\* C9: whatever the directory holds, a save (speech, OpenAI image, Google
\* image) picks a name that does not exist, its probing loop ends, and the
\* saves of one run, same slug and same minute included, get different
\* names and never replace each other's file nor an older one.
C9_DistinctFilenames ==
  /\ []C9_SaveInvariant
  /\ \A t \in {1} : (tasks[t].pc = "probe") ~> (tasks[t].pc # "probe")

\* C9 witness: two images saved within one minute from one prompt, in a
\* directory that already held the first name.
C9_Witness ==
  /\ proc.mode = "single"
  /\ Len(tasks[1].saved) = 2
  /\ SubSeq(tasks[1].saved[1], 1, 15) = SubSeq(tasks[1].saved[2], 1, 15)
  /\ \E f \in DOMAIN files : files[f].by = 0
  /\ tasks[1].counter > 1

\* C11: each provider's resolver is total; an input equal, case included, to
\* a key of the provider's table gives the value of the first entry with
\* that key in table order, and every other input comes back unchanged.
C11_FirstMatchOrPassThrough ==
  (call.fn = "resolve" /\ ret # <<>>) =>
    LET table == MODEL_MAPPING(call.provider)
    IN IF \E i \in DOMAIN table : table[i][1] = call.model_id
         THEN \E i \in DOMAIN table :
                /\ table[i][1] = call.model_id
                /\ \A j \in 1..(i - 1) : table[j][1] # call.model_id
                /\ ret[1] = table[i][2]
         ELSE ret[1] = call.model_id

\* C11 witness: an input that differs from a key by case alone comes back
\* unchanged.
C11_Witness ==
  /\ call.fn = "resolve"
  /\ call.provider = "OpenAI"
  /\ call.model_id = "GPT"
  /\ \E i \in DOMAIN OPENAI_MODEL_MAPPING : OPENAI_MODEL_MAPPING[i][1] = "gpt"
  /\ ret # <<>>
  /\ ret[1] = "GPT"

\* C12 (as claimed): for every provider and every specifier x, a descriptor
\* returned by get_api_request has model = resolve(provider, x).
C12_ModelIsResolved ==
  (call.fn = "get_api_request" /\ ret # <<>> /\ is_ok(result)) =>
    result.value.model =
      find_map_or(MODEL_MAPPING(call.model.provider), call.model.model_id)

\* The name of a provider family in environment variables.
C13_EnvName(provider) ==
  CASE provider = "Anthropic" -> "ANTHROPIC_API_KEY"
    [] provider = "Cerebras" -> "CEREBRAS_API_KEY"
    [] provider = "DeepSeek" -> "DEEPSEEK_API_KEY"
    [] provider = "Google" -> "GOOGLE_API_KEY"
    [] provider = "Groq" -> "GROQ_API_KEY"
    [] provider = "OpenAI" -> "OPENAI_API_KEY"
    [] provider = "XAI" -> "XAI_API_KEY"
    [] provider = "Perplexity" -> "PERPLEXITY_API_KEY"

\* The text names, for the provider family, the secrets-file field, the
\* CAI_-prefixed variable and the generic variable.
C13_Enumerates(text, provider) ==
  /\ contains(text, "'" \o config_key(provider) \o "'")
  /\ contains(text, "CAI_" \o C13_EnvName(provider))
  /\ \/ contains(text, "(" \o C13_EnvName(provider))
     \/ contains(text, ", " \o C13_EnvName(provider))

\* C13 (as claimed): the missing-credential error of get_api_request is the
\* same text whichever provider triggered it, and it names the three ways
\* of supplying a key for every provider that can trigger it.
C13_MessageComplete ==
  (call.fn = "get_api_request" /\ ret # <<>> /\ is_err(result)) =>
    /\ result.error = get_key_setup_msg(SECRETS_PATH)
    /\ \A provider \in KEYED_PROVIDERS :
         C13_Enumerates(result.error, provider)

\* C14: a prompt that parses as JSON is returned by get_req_body_obj as the
\* body, exactly as parsed, for every provider, model and options: the rule
\* comes before the Google, speech, image and chat shapes and before the
\* gating of the JSON options.
C14_JsonPassThrough ==
  (call.fn = "get_req_body_obj" /\ ret # <<>>) =>
    /\ is_ok(serde_json_from_str(call.user_input)) =>
         result = Return(serde_json_from_str(call.user_input).value)
    /\ call.user_input \in {"{}", "\n{}"} => result = Return(Obj(Map_new))
    /\ call.user_input = "42" => result = Return(Num(42))

\* C14 witness: the prompt {} is the whole body of a Google request, and of
\* an Anthropic request that asks for the JSON mode.
C14_Witness ==
  /\ call.fn = "get_req_body_obj"
  /\ call.user_input = "{}"
  /\ \/ call.http_req.provider = "Google"
     \/ (call.http_req.provider = "Anthropic" /\ call.opts.is_json)
  /\ ret # <<>>
  /\ result = Return(Obj(Map_new))

\* The text ends with the suffix.
C15_EndsWith(text, suffix) ==
  /\ Len(text) >= Len(suffix)
  /\ SubSeq(text, Len(text) - Len(suffix) + 1, Len(text)) = suffix

\* C15 (as claimed): for OpenAI and XAI the endpoint follows the resolved
\* model name: /audio/speech for a name containing -tts,
\* /images/generations for a name starting with gpt-image, dall-e or
\* grok-2-image, /chat/completions for every other name.  The speech and
\* OpenAI image names are read as rules of OpenAI, grok-2-image as XAI's.
C15_EndpointByModelName ==
  (/\ call.fn = "get_api_request"
   /\ call.model.provider \in {"OpenAI", "XAI"}
   /\ ret # <<>>
   /\ is_ok(result)) =>
    LET name == result.value.model
        url == result.value.url
        openai == call.model.provider = "OpenAI"
    IN IF openai /\ contains(name, "-tts")
         THEN C15_EndsWith(url, "/audio/speech")
         ELSE IF \/ openai /\ starts_with(name, "gpt-image")
                 \/ openai /\ starts_with(name, "dall-e")
                 \/ ~openai /\ starts_with(name, "grok-2-image")
           THEN C15_EndsWith(url, "/images/generations")
           ELSE C15_EndsWith(url, "/chat/completions")

\* C16: in broadcast mode the output of one dispatch is written to standard
\* output as a whole: between two chunks written by one dispatch there is no
\* chunk written by another one.
C16_OutputAtomic ==
  \A i \in DOMAIN stdout : \A k \in DOMAIN stdout :
    (i < k /\ stdout[i].by = stdout[k].by)
      => \A j \in i..k : stdout[j].by = stdout[i].by

\* Credential resolution, the empty-prompt check and payload shaping all
\* succeed for the dispatch.
C17_AllSucceed(task) ==
  LET selected == get_http_req(task.model, SECRETS_PATH, full_config)
  IN /\ is_ok(selected)
     /\ ~is_empty(user_input)
     /\ get_req_body_obj(opts, selected.value[2], user_input).tag # "ProcessExit"

\* C17: an exec_tool invocation sends at most one request, a POST: none
\* before exec_request is reached, exactly one once it is passed when the
\* credentials, the empty-prompt check and the shaping succeed, none when
\* one of them fails; whatever comes back, no second request follows.
C17_AtMostOnePost ==
  proc.state # "none" =>
    \A t \in DOMAIN tasks :
      /\ Len(tasks[t].posts) <= 1
      /\ \A i \in DOMAIN tasks[t].posts : tasks[t].posts[i].method = "POST"
      /\ tasks[t].pc \in {"unspawned", "start"} => tasks[t].posts = <<>>
      /\ tasks[t].pc \notin {"unspawned", "start"} =>
           (Len(tasks[t].posts) = 1 <=> C17_AllSucceed(tasks[t]))

\* C17 witness: exec_tool has returned the error of a non-2xx response,
\* having sent one request.
C17_Witness ==
  /\ proc.state # "none"
  /\ tasks[1].pc = "returned"
  /\ tasks[1].resp = Some(HttpResponse(FALSE, JsonBody(INVALID_KEY_REPLY)))
  /\ is_some(tasks[1].result) /\ is_err(tasks[1].result.value)
  /\ Len(tasks[1].posts) = 1

\* The ways a request carries the key.
C18_Mechanisms(req, api_key) ==
  {m \in {"x-api-key", "bearer", "query"} :
     CASE m = "x-api-key" ->
            "x-api-key" \in DOMAIN req.headers
       [] m = "bearer" ->
            "authorization" \in DOMAIN req.headers
       [] m = "query" ->
            contains(req.url, "?key=")}

\* C18: exec_request authenticates by provider.  Anthropic: the headers
\* anthropic-version: 2023-06-01 and x-api-key: <key>, no bearer header.
\* Google: no auth header, the URL <url>/<model>:generateContent?key=<key>.
\* Every other provider: Authorization: Bearer <key>, the URL unchanged.
\* One mechanism carries the key in each request.
C18_AuthByProvider ==
  \A t \in DOMAIN tasks : \A i \in DOMAIN tasks[t].posts :
    LET req == tasks[t].posts[i]
        http_req == tasks[t].http_req
    IN /\ Cardinality(C18_Mechanisms(req, http_req.api_key)) = 1
       /\ CASE http_req.provider = "Anthropic" ->
                 /\ req.url = http_req.url
                 /\ "anthropic-version" \in DOMAIN req.headers
                 /\ req.headers["anthropic-version"] = "2023-06-01"
                 /\ C18_Mechanisms(req, http_req.api_key) = {"x-api-key"}
                 /\ req.headers["x-api-key"] = http_req.api_key
            [] http_req.provider = "Google" ->
                 /\ req.url = http_req.url \o "/" \o http_req.model
                                \o ":generateContent?key=" \o http_req.api_key
                 /\ C18_Mechanisms(req, http_req.api_key) = {"query"}
            [] OTHER ->
                 /\ req.url = http_req.url
                 /\ C18_Mechanisms(req, http_req.api_key) = {"bearer"}
                 /\ req.headers["authorization"] = "Bearer " \o http_req.api_key

\* C18 witness: the broadcast has sent a request to Anthropic with the key
\* in x-api-key and one to Cerebras with the key as bearer token.
C18_Witness ==
  /\ Len(tasks) >= 2
  /\ tasks[1].http_req.provider = "Anthropic" /\ Len(tasks[1].posts) = 1
  /\ tasks[1].posts[1].headers["x-api-key"] = "sk-Anthropic"
  /\ tasks[2].http_req.provider = "Cerebras" /\ Len(tasks[2].posts) = 1
  /\ tasks[2].posts[1].headers["authorization"] = "Bearer sk-Cerebras"

\* No earlier rule of get_req_body_obj takes the request and no JSON option
\* is set: the prompt is not valid JSON, the provider is not Google, the
\* request is no OpenAI speech or image request and is not for XAI's image
\* model.
C19_DefaultShape ==
  /\ is_err(serde_json_from_str(call.user_input))
  /\ call.http_req.provider # "Google"
  /\ ~(call.http_req.provider = "OpenAI"
         /\ \/ contains(call.http_req.model, "-tts")
            \/ is_image_generation(call.opts)
            \/ starts_with(call.http_req.model, "gpt-image")
            \/ starts_with(call.http_req.model, "dall-e"))
  /\ ~(call.http_req.provider = "XAI" /\ call.http_req.model = "grok-2-image")
  /\ ~call.opts.is_json
  /\ call.opts.json_schema = None

\* The object {model, <field>: budget, messages: [{role: user, content}]}.
C19_Body(model, field, budget, prompt) ==
  [t |-> "object",
   v |-> [k \in {"model", field, "messages"} |->
            CASE k = "model" -> [t |-> "string", v |-> model]
              [] k = field -> [t |-> "number", v |-> budget]
              [] k = "messages" ->
                   [t |-> "array",
                    v |-> <<[t |-> "object",
                             v |-> [j \in {"role", "content"} |->
                                      IF j = "role"
                                        THEN [t |-> "string", v |-> "user"]
                                        ELSE [t |-> "string", v |-> prompt]]]>>]]]

\* C19: when the default chat shape applies and no JSON option is set, the
\* body is exactly {model, token-budget field: token budget, messages:
\* [{role: user, content: prompt}]}, no other field; for Anthropic,
\* claude-3-5-haiku-latest, the prompt Hello and the default budget it is
\* {model: claude-3-5-haiku-latest, max_tokens: 4096, messages: [{role:
\* user, content: Hello}]}.
C19_DefaultChatBody ==
  (call.fn = "get_req_body_obj" /\ ret # <<>> /\ C19_DefaultShape) =>
    /\ \E field \in {"max_tokens", "max_completion_tokens"} :
         result = Return(C19_Body(call.http_req.model, field,
                                  call.http_req.max_tokens, call.user_input))
    /\ (call.http_req.provider = "Anthropic"
          /\ call.http_req.model = "claude-3-5-haiku-latest"
          /\ call.http_req.max_tokens = DEFAULT_MAX_TOKENS
          /\ call.user_input = "Hello") =>
         result = Return(C19_Body("claude-3-5-haiku-latest", "max_tokens",
                                  4096, "Hello"))

\* C19 witness: the body built for Anthropic, claude-3-5-haiku-latest and the
\* prompt Hello.
C19_Witness ==
  /\ call.fn = "get_req_body_obj"
  /\ call.http_req.provider = "Anthropic"
  /\ call.http_req.model = "claude-3-5-haiku-latest"
  /\ call.http_req.max_tokens = DEFAULT_MAX_TOKENS
  /\ call.user_input = "Hello"
  /\ C19_DefaultShape
  /\ ret # <<>>
  /\ DOMAIN result.value.v = {"model", "max_tokens", "messages"}

\* C20: given an explicit model, get_http_req tries that provider alone and
\* hands on what get_api_request returns for it.  A keyed provider whose key
\* is missing or empty yields the missing-credential error, whatever other
\* keys the configuration holds; otherwise the descriptor is the one built
\* for the requested model and its provider is the requested one.
C20_ExplicitModelOnly ==
  (call.fn = "get_http_req" /\ is_some(call.optional_model) /\ ret # <<>>) =>
    LET model == call.optional_model.value
        req == get_api_request(call.full_config, SECRETS_PATH, model)
    IN IF model.provider \in KEYED_PROVIDERS
            /\ ~has_key(call.full_config, config_key(model.provider))
         THEN result = Err(get_key_setup_msg(SECRETS_PATH))
         ELSE /\ is_ok(result)
              /\ result.value[2].provider = model.provider
              /\ is_ok(req) /\ result.value[2] = req.value

\* C20 witness: OpenAI is asked for, its key is missing, the keys of Groq
\* and Anthropic are set, and the missing-credential error is returned.
C20_Witness ==
  /\ call.fn = "get_http_req"
  /\ call.optional_model = Some(Model("OpenAI", "gpt"))
  /\ ~has_key(call.full_config, "openai_api_key")
  /\ has_key(call.full_config, "groq_api_key")
  /\ has_key(call.full_config, "anthropic_api_key")
  /\ ret # <<>>
  /\ result = Err(get_key_setup_msg(SECRETS_PATH))

\* C10 (as claimed): for every provider and every alias of its table,
\* resolving the resolved id again changes nothing.
C10_ResolveIdempotent ==
  (/\ call.fn = "resolve"
   /\ \E i \in DOMAIN MODEL_MAPPING(call.provider) :
        MODEL_MAPPING(call.provider)[i][1] = call.model_id
   /\ Len(ret) >= 2)
    => ret[2] = ret[1]

\* The text at candidates[0].content.parts[0].text of a reply, if a string
\* is there.
C21_Text(json) ==
  IF /\ json.t = "object" /\ "candidates" \in DOMAIN json.v
     /\ json.v["candidates"].t = "array" /\ Len(json.v["candidates"].v) >= 1
     /\ json.v["candidates"].v[1].t = "object"
     /\ "content" \in DOMAIN json.v["candidates"].v[1].v
     /\ json.v["candidates"].v[1].v["content"].t = "object"
     /\ "parts" \in DOMAIN json.v["candidates"].v[1].v["content"].v
     /\ json.v["candidates"].v[1].v["content"].v["parts"].t = "array"
     /\ Len(json.v["candidates"].v[1].v["content"].v["parts"].v) >= 1
     /\ json.v["candidates"].v[1].v["content"].v["parts"].v[1].t = "object"
     /\ "text" \in DOMAIN json.v["candidates"].v[1].v["content"].v["parts"].v[1].v
     /\ json.v["candidates"].v[1].v["content"].v["parts"].v[1].v["text"].t = "string"
    THEN Some(json.v["candidates"].v[1].v["content"].v["parts"].v[1].v["text"].v)
    ELSE None

\* The dispatch went to a Google model that is no image model and got a 2xx
\* reply with a JSON body.
C21_GoogleTextReply(task) ==
  /\ task.http_req.provider = "Google"
  /\ ~contains(task.http_req.model, "-image")
  /\ is_some(task.resp)
  /\ task.resp.value.tag = "Response"
  /\ task.resp.value.status_success
  /\ task.resp.value.body.kind = "json"

\* C21: for a Google model that is no image model and a 2xx reply with a
\* JSON body, text extraction does not fail: the text is the string at
\* candidates[0].content.parts[0].text, the empty string when a segment of
\* that path is absent or no string is there, and exec_tool returns Ok.
C21_MissingTextIsEmpty ==
  \A t \in DOMAIN tasks :
    C21_GoogleTextReply(tasks[t]) =>
      /\ tasks[t].pc \in {"print", "returned"}
      /\ tasks[t].msg = (IF is_some(C21_Text(tasks[t].resp.value.body.value))
                           THEN C21_Text(tasks[t].resp.value.body.value).value
                           ELSE "")
      /\ tasks[t].pc = "returned" => tasks[t].result = Some(Ok("unit"))

\* C21 witness: Gemini answered with a number where the text belongs, and
\* exec_tool returned Ok with the empty text.
C21_Witness ==
  /\ proc.state # "none"
  /\ C21_GoogleTextReply(tasks[1])
  /\ tasks[1].resp.value.body.value = GOOGLE_REPLY_NO_TEXT
  /\ tasks[1].pc = "returned"
  /\ tasks[1].msg = ""
  /\ tasks[1].result = Some(Ok("unit"))

\* C22 (as claimed): the error output of a failed dispatch holds the elapsed
\* time of the dispatch, the label of the descriptor used (provider and
\* resolved model id) and the error detail together.  Here: the output of
\* submit_prompt for a dispatch whose exec_tool returned an error.
C22_FailureAttributable ==
  (proc.state = "exited" /\ proc.mode = "single" /\ proc.code = 1
     /\ tasks[1].pc = "returned") =>
    /\ contains(proc.stderr, tasks[1].result.value.error)
    /\ contains(proc.stderr, ":time: ")
    /\ tasks[1].posts # <<>> =>
         contains(proc.stderr,
                  Provider_fmt(tasks[1].http_req.provider) \o " "
                    \o tasks[1].http_req.model)

\* C23 (as claimed): the three saving paths follow one collision policy.
\* Here: when the name just probed exists, the next candidate does not
\* depend on which path is saving: the OpenAI image loop (which adds one to
\* its counter before it forms the name) and the speech and Google image
\* loops (which add one after) form the same name.
C23_OneCollisionPolicy ==
  \A t \in DOMAIN tasks :
    (tasks[t].pc = "probe" /\ exists(files, tasks[t].filename)) =>
      \A pre_increment \in BOOLEAN :
        next_probe([Head(tasks[t].jobs) EXCEPT !.pre_increment = pre_increment],
                   tasks[t].prefix, tasks[t].counter).filename
          = next_probe(Head(tasks[t].jobs), tasks[t].prefix,
                       tasks[t].counter).filename

\* The characters of a slug: lower-case letters, digits, the underscore.
C24_SlugChars(slug) ==
  \A i \in 1..Len(slug) :
    \/ \E j \in 1..Len(LOWERCASE) : char_at(LOWERCASE, j) = char_at(slug, i)
    \/ is_digit(char_at(slug, i))
    \/ char_at(slug, i) = "_"

\* C24 (as claimed): the slug has at most 30 characters, all of them
\* lower-case alphanumerics or underscores; between underscores there is no
\* empty segment (none at the start either) and no filler word.
C24_SlugWellFormed ==
  (call.fn = "prompt_to_short_name" /\ ret # <<>>) =>
    /\ Len(result) <= 30
    /\ C24_SlugChars(result)
    /\ result # "" =>
         \A i \in DOMAIN split(result, "_") :
           /\ split(result, "_")[i] # ""
           /\ split(result, "_")[i] \notin FILLER_WORDS

\* C25 (as claimed): for an OpenAI or XAI request whose prompt is not valid
\* JSON, the URL and the payload of the request sent agree: an image payload
\* ({model, prompt} or {model, prompt, n}) exactly with /images/generations,
\* a speech payload exactly with /audio/speech, a chat payload (with
\* messages) exactly with /chat/completions.
C25_EndpointMatchesPayload ==
  \A t \in DOMAIN tasks : \A i \in DOMAIN tasks[t].posts :
    LET req == tasks[t].posts[i]
    IN (tasks[t].http_req.provider \in {"OpenAI", "XAI"}
          /\ is_err(serde_json_from_str(user_input))) =>
         /\ req.json.t = "object"
         /\ (DOMAIN req.json.v \in {{"model", "prompt"}, {"model", "prompt", "n"}})
              <=> C15_EndsWith(req.url, "/images/generations")
         /\ ("input" \in DOMAIN req.json.v)
              <=> C15_EndsWith(req.url, "/audio/speech")
         /\ ("messages" \in DOMAIN req.json.v)
              <=> C15_EndsWith(req.url, "/chat/completions")

\* C26 (as claimed): two dispatches that save concurrently in one directory
\* write to distinct file names: no name is written by both.
C26_DistinctFilesAcrossDispatches ==
  \A t \in DOMAIN tasks : \A u \in DOMAIN tasks :
    t # u =>
      \A i \in DOMAIN tasks[t].saved : \A j \in DOMAIN tasks[u].saved :
        tasks[t].saved[i] # tasks[u].saved[j]

\* Keys a descriptor may carry instead of its own.
C27_OtherKeys == {"", "sk-other", "DUMMY_KEY"}

\* C27: the body built by get_req_body_obj does not depend on the API key:
\* the descriptor with any other key gives the same result, and the text of
\* the body does not hold the key.
C27_BodyIndependentOfKey ==
  (call.fn = "get_req_body_obj" /\ ret # <<>>) =>
    /\ \A api_key \in C27_OtherKeys :
         get_req_body_obj(call.opts, [call.http_req EXCEPT !.api_key = api_key],
                          call.user_input) = result
    /\ result.tag = "Return" =>
         ~contains(to_string_pretty(result.value), call.http_req.api_key)

\* C27 witness: a chat body built from a descriptor that carries a key.
C27_Witness ==
  /\ call.fn = "get_req_body_obj"
  /\ call.http_req.provider = "OpenAI"
  /\ call.http_req.api_key = "sk-OpenAI"
  /\ ret # <<>>
  /\ result.tag = "Return"
  /\ contains_key(result.value, "messages")
  /\ get_req_body_obj(call.opts, [call.http_req EXCEPT !.api_key = "sk-other"],
                      call.user_input) = result

\* exec_tool failed at or before the test of the response status: no
\* request was sent (missing credential, empty prompt), the transport
\* failed, or the status is not 2xx.
C28_FailedEarly(task) ==
  \/ task.pc = "returned" /\ task.posts = <<>>
  \/ /\ is_some(task.resp)
     /\ \/ task.resp.value.tag = "TransportError"
        \/ ~task.resp.value.status_success

C29_RenameInPlace ==
  (call.fn = "rename_file" /\ ret # <<>>) =>
    LET stem == call.timestamp \o "_" \o call.description
        ext == path_extension(call.file)
        first == path_join(path_parent(call.file), stem \o "." \o ext)
        numbered(n) ==
          path_join(path_parent(call.file),
                    stem \o "_" \o to_string(n) \o "." \o ext)
    IN /\ result \notin DOMAIN call.directory
       /\ path_parent(result) = path_parent(call.file)
       /\ IF first \notin DOMAIN call.directory
            THEN result = first
            ELSE \E n \in 1..(Cardinality(DOMAIN call.directory) + 1) :
                   /\ result = numbered(n)
                   /\ \A m \in 1..(n - 1) : numbered(m) \in DOMAIN call.directory

\* C30: format_elapsed_time gives the unit "ms" with the unchanged count of
\* milliseconds exactly when elapsed_millis <= 10000, and otherwise the unit
\* "s" with a number of one decimal place that is a nearest tenth of
\* elapsed_millis / 1000 (at most 50 ms away); 10001 gives "10.0", 15999
\* gives "16.0" and 60123 gives "60.1".
C30_ElapsedFormat ==
  (call.fn = "format_elapsed_time" /\ ret # <<>>) =>
    LET ms == call.elapsed_millis
        shown(tenths) == to_string(tenths \div 10) \o "." \o to_string(tenths % 10)
    IN /\ (result[2] = "ms") <=> (ms <= 10000)
       /\ result[2] \in {"ms", "s"}
       /\ result[2] = "ms" => result[1] = to_string(ms)
       /\ result[2] = "s" =>
            \E tenths \in (ms \div 100)..(ms \div 100 + 1) :
              /\ result[1] = shown(tenths)
              /\ 100 * tenths - ms <= 50
              /\ ms - 100 * tenths <= 50
       /\ ms = 10001 => result = <<"10.0", "s">>
       /\ ms = 15999 => result = <<"16.0", "s">>
       /\ ms = 60123 => result = <<"60.1", "s">>

\* C30 witness: format_elapsed_time(15999) has returned 16.0 s, a value
\* above the change of unit that is rounded up to the next second.
C30_Witness ==
  /\ call.fn = "format_elapsed_time"
  /\ call.elapsed_millis = 15999
  /\ ret = <<(<<"16.0", "s">>)>>

====
